---- MODULE Spec2Model ----
(***************************************************************************)
(* Moodboards: password-gated image boards over a hosted relational store  *)
(* (boards, labels, images) and a drive store.  The store operations of    *)
(* src/src/lib/supabase.js act on three tables whose constraints come from *)
(* the schema (src/unnamed/part_002); the view layer (Home, Board,         *)
(* ImageCard, UploadModal) keeps a local copy and talks to the store by    *)
(* asynchronous request/response.                                          *)
(***************************************************************************)
EXTENDS Integers, Sequences, FiniteSets, TLC

VARIABLES
    boards,     \* table boards: set of rows
    labels,     \* table labels: set of rows
    images,     \* table images: set of rows
    nextId,     \* uuid_generate_v4(): fresh ids, one counter per table
    made,       \* history: the passwords each board id was created with
    ret,        \* what the last direct store-client call returned or threw
    page,       \* state of the Board component (useState values)
    cards,      \* state of each mounted ImageCard, by image id
    reqs,       \* handler invocations suspended at an await
    toast,      \* the notification raised last
    route,      \* the router's location: path, :boardName and navigation state
    home,       \* state of the Home component
    upload,     \* state of the UploadModal component
    granted,    \* history: board names this client verified or created
    drive       \* module state of googleDrive.js and the two script elements

storeVars == <<boards, labels, images, nextId>>
shellVars == <<route, home, upload, granted, drive>>
clientVars == <<page, cards, reqs, toast, shellVars>>
vars == <<boards, labels, images, nextId, made, ret, page, cards, reqs, toast,
          route, home, upload, granted, drive>>

----------------------------------------------------------------------------
(* Bounds of the model *)

MaxBoardIds == 2    \* boards ever created
MaxLabelIds == 2    \* labels ever created
MaxImageIds == 2    \* images ever created

(* Input alphabets *)
BoardNames == {"a", "A"}        \* differ in case only
LabelNames == {"x", "y"}
PwChars == {32, 233}            \* code points: space, e-acute (two UTF-8 bytes)
DefaultColor == "#a78bfa"
NullId == 0                     \* SQL NULL in an id column
NullText == "null"              \* SQL NULL in a text column

Passwords == {<<>>} \cup {<<c>> : c \in PwChars}   \* "", " ", "e-acute"
DeletionPasswords == {<<>>, <<233>>}

----------------------------------------------------------------------------
(* hashPassword: TextEncoder.encode (UTF-8) followed by SHA-256, hex-encoded. *)
(* The digest is kept symbolic: the hex string of SHA-256 over a byte string  *)
(* is represented by that byte string under the tag "sha256", i.e. SHA-256 is *)
(* taken to be collision-free on the inputs enumerated.                       *)

UTF8(c) == IF c < 128 THEN <<c>> ELSE <<192 + (c \div 64), 128 + (c % 64)>>

RECURSIVE TextEncode(_)
TextEncode(s) == IF s = <<>> THEN <<>> ELSE UTF8(Head(s)) \o TextEncode(Tail(s))

hashPasswordConst(password) == [sha256 |-> <<>>]

hashPassword(password) == [sha256 |-> TextEncode(password)]

----------------------------------------------------------------------------
(* The store: constraints of the schema *)

NoRow == [id |-> NullId]
NoErr == "none"
ErrUnique == "23505"        \* unique_violation
ErrForeignKey == "23503"    \* foreign_key_violation
ErrNoRows == "PGRST116"     \* .single() found no row
ErrTransport == "FetchError" \* the request did not reach the store

Nets == {"ok", "fail"}

BoardByName(name) == {b \in boards : b.name = name}
BoardById(id) == {b \in boards : b.id = id}
LabelById(id) == {l \in labels : l.id = id}
ImageById(id) == {i \in images : i.id = id}

(* label:labels(id, name, color) joined onto an image row *)
JoinLabel(img, lbls) ==
    LET ls == {l \in lbls : l.id = img.label_id}
    IN  IF img.label_id = NullId \/ ls = {} THEN NoRow
        ELSE LET l == CHOOSE l \in ls : TRUE
             IN  [id |-> l.id, name |-> l.name, color |-> l.color]

WithLabel(img, lbls) ==
    [id |-> img.id, board_id |-> img.board_id, label_id |-> img.label_id,
     drive_file_id |-> img.drive_file_id, is_selected |-> img.is_selected,
     comment |-> img.comment, label |-> JoinLabel(img, lbls)]

(* rows ordered by created_at = order of their ids *)
RECURSIVE SortById(_, _)
SortById(S, asc) ==
    IF S = {} THEN <<>>
    ELSE LET m == CHOOSE r \in S : \A q \in S : IF asc THEN r.id <= q.id ELSE r.id >= q.id
         IN  <<m>> \o SortById(S \ {m}, asc)

----------------------------------------------------------------------------
(* The store-client functions of src/src/lib/supabase.js.  Each is an      *)
(* operator from the store S = [boards, labels, images, nextId], its       *)
(* arguments and the fate of the request (net) to the store afterwards and *)
(* the outcome the caller sees.                                            *)

Store == [boards |-> boards, labels |-> labels, images |-> images, nextId |-> nextId]

MsgDupBoard == "A board with this name already exists"
MsgDupLabel == "A label with this name already exists in this board"
MsgBoardNotFound == "Board not found"
MsgBadPassword == "Incorrect password"
MsgBadDeletionPassword == "Incorrect deletion password"

Out(st, status, success, error, data) ==
    [S |-> st, status |-> status, success |-> success, error |-> error, data |-> data]
Returned(st, data) == Out(st, "return", TRUE, NoErr, data)
Threw(st, error) == Out(st, "throw", FALSE, error, NoRow)

(* boards ordered by created_at, newest first *)
getAllBoards(S, net) ==
    IF net = "fail" THEN Threw(S, ErrTransport) ELSE Returned(S, SortById(S.boards, FALSE))

getBoardByName(S, name, net) ==
    LET bs == {b \in S.boards : b.name = name}
    IN  IF net = "fail" THEN Threw(S, ErrTransport)
        ELSE IF bs = {} THEN Returned(S, NoRow)      \* PGRST116 is swallowed
        ELSE Returned(S, CHOOSE b \in bs : TRUE)

createBoardNoUnique(S, name, password, deletionPassword, net) ==
    IF net = "fail" THEN Threw(S, ErrTransport)
    ELSE LET row == [id |-> S.nextId.board, name |-> name,
                     password_hash |-> hashPassword(password),
                     deletion_password_hash |-> hashPassword(deletionPassword)]
         IN  Returned([S EXCEPT !.boards = @ \cup {row}, !.nextId.board = @ + 1], row)

createBoard(S, name, password, deletionPassword, net) ==
    LET passwordHash == hashPassword(password)
        deletionPasswordHash == hashPassword(deletionPassword)
        row == [id |-> S.nextId.board, name |-> name,
                password_hash |-> passwordHash,
                deletion_password_hash |-> deletionPasswordHash]
    IN  IF net = "fail" THEN Threw(S, ErrTransport)
        ELSE IF \E b \in S.boards : b.name = name       \* name TEXT UNIQUE
             THEN Threw(S, MsgDupBoard)                  \* error.code = 23505
        ELSE Returned([S EXCEPT !.boards = @ \cup {row}, !.nextId.board = @ + 1], row)

(* verifyBoardPassword without its "if (!board)" line *)
verifyBoardPasswordNoLookupCheck(S, name, password, net) ==
    LET g == getBoardByName(S, name, net)
    IN  IF g.status = "throw" THEN g
        ELSE IF g.data # NoRow /\ g.data.password_hash = hashPassword(password)
             THEN Out(S, "return", TRUE, NoErr, g.data)
        ELSE Out(S, "return", FALSE, MsgBadPassword, NoRow)

verifyBoardPassword(S, name, password, net) ==
    LET g == getBoardByName(S, name, net)
    IN  IF g.status = "throw" THEN g
        ELSE IF g.data = NoRow THEN Out(S, "return", FALSE, MsgBoardNotFound, NoRow)
        ELSE IF g.data.password_hash = hashPassword(password)
             THEN Out(S, "return", TRUE, NoErr, g.data)
        ELSE Out(S, "return", FALSE, MsgBadPassword, NoRow)

verifyDeletionPassword(S, boardId, deletionPassword, net) ==
    LET bs == {b \in S.boards : b.id = boardId}
    IN  IF net = "fail" \/ bs = {} THEN Out(S, "return", FALSE, MsgBoardNotFound, NoRow)
        ELSE IF (CHOOSE b \in bs : TRUE).deletion_password_hash = hashPassword(deletionPassword)
             THEN Out(S, "return", TRUE, NoErr, NoRow)
        ELSE Out(S, "return", FALSE, MsgBadDeletionPassword, NoRow)

(* DELETE on labels: images.label_id ... ON DELETE SET NULL *)
ClearLabelRefs(imgs, gone) ==
    {IF i.label_id \in gone THEN [i EXCEPT !.label_id = NullId] ELSE i : i \in imgs}

deleteBoardNoCascade(S, boardId, net) ==
    IF net = "fail" THEN Threw(S, ErrTransport)
    ELSE Returned([S EXCEPT !.boards = {b \in @ : b.id # boardId}], NoRow)

deleteBoard(S, boardId, net) ==
    IF net = "fail" THEN Threw(S, ErrTransport)
    ELSE LET goneLabels == {l.id : l \in {l \in S.labels : l.board_id = boardId}}
         IN  Returned([S EXCEPT
                 !.boards = {b \in @ : b.id # boardId},
                 !.labels = {l \in @ : l.board_id # boardId},     \* ON DELETE CASCADE
                 !.images = ClearLabelRefs({i \in @ : i.board_id # boardId}, goneLabels)],
               NoRow)

getBoardLabels(S, boardId, net) ==
    IF net = "fail" THEN Threw(S, ErrTransport)
    ELSE Returned(S, SortById({l \in S.labels : l.board_id = boardId}, TRUE))

createLabelGlobalUnique(S, boardId, name, color, net) ==
    LET row == [id |-> S.nextId.label, board_id |-> boardId, name |-> name, color |-> color]
    IN  IF net = "fail" THEN Threw(S, ErrTransport)
        ELSE IF \E l \in S.labels : l.name = name THEN Threw(S, MsgDupLabel)
        ELSE IF ~\E b \in S.boards : b.id = boardId THEN Threw(S, ErrForeignKey)
        ELSE Returned([S EXCEPT !.labels = @ \cup {row}, !.nextId.label = @ + 1], row)

createLabel(S, boardId, name, color, net) ==
    LET row == [id |-> S.nextId.label, board_id |-> boardId, name |-> name, color |-> color]
    IN  IF net = "fail" THEN Threw(S, ErrTransport)
        ELSE IF \E l \in S.labels : l.board_id = boardId /\ l.name = name  \* UNIQUE(board_id, name)
             THEN Threw(S, MsgDupLabel)
        ELSE IF ~\E b \in S.boards : b.id = boardId     \* REFERENCES boards(id)
             THEN Threw(S, ErrForeignKey)
        ELSE Returned([S EXCEPT !.labels = @ \cup {row}, !.nextId.label = @ + 1], row)

updateLabel(S, labelId, name, color, net) ==
    LET ls == {l \in S.labels : l.id = labelId}
    IN  IF net = "fail" THEN Threw(S, ErrTransport)
        ELSE IF ls = {} THEN Threw(S, ErrNoRows)
        ELSE LET old == CHOOSE l \in ls : TRUE
                 new == [old EXCEPT !.name = name, !.color = color]
             IN  IF \E l \in S.labels : l.id # labelId /\ l.board_id = old.board_id /\ l.name = name
                 THEN Threw(S, ErrUnique)
                 ELSE Returned([S EXCEPT !.labels = (@ \ {old}) \cup {new}], new)

deleteLabelCascade(S, labelId, net) ==
    IF net = "fail" THEN Threw(S, ErrTransport)
    ELSE Returned([S EXCEPT !.labels = {l \in @ : l.id # labelId},
                            !.images = {i \in @ : i.label_id # labelId}], NoRow)

deleteLabel(S, labelId, net) ==
    IF net = "fail" THEN Threw(S, ErrTransport)
    ELSE Returned([S EXCEPT !.labels = {l \in @ : l.id # labelId},
                            !.images = ClearLabelRefs(@, {labelId})], NoRow)

getBoardImages(S, boardId, net) ==
    IF net = "fail" THEN Threw(S, ErrTransport)
    ELSE LET rows == SortById({i \in S.images : i.board_id = boardId}, FALSE)
         IN  Returned(S, [k \in 1..Len(rows) |-> WithLabel(rows[k], S.labels)])

(* images: a sequence of [driveFileId]; one INSERT statement, all rows or none *)
addMultipleImages(S, boardId, imgs, labelId, net) ==
    LET first == S.nextId.image
        rows == [k \in 1..Len(imgs) |->
                    [id |-> first + k - 1, board_id |-> boardId, label_id |-> labelId,
                     drive_file_id |-> imgs[k].driveFileId, is_selected |-> FALSE,
                     comment |-> NullText]]
        S2 == [S EXCEPT !.images = @ \cup {rows[k] : k \in 1..Len(rows)},
                        !.nextId.image = @ + Len(rows)]
    IN  IF net = "fail" THEN Threw(S, ErrTransport)
        ELSE IF Len(imgs) > 0 /\ ~\E b \in S.boards : b.id = boardId THEN Threw(S, ErrForeignKey)
        ELSE IF Len(imgs) > 0 /\ labelId # NullId /\ ~\E l \in S.labels : l.id = labelId
             THEN Threw(S, ErrForeignKey)
        ELSE Returned(S2, [k \in 1..Len(rows) |-> WithLabel(rows[k], S2.labels)])

(* UPDATE images SET column = value WHERE id = imageId, then .select(...).single() *)
UpdateImage(S, imageId, column, value, net) ==
    LET is == {i \in S.images : i.id = imageId}
    IN  IF net = "fail" THEN Threw(S, ErrTransport)
        ELSE IF is = {} THEN Threw(S, ErrNoRows)
        ELSE LET old == CHOOSE i \in is : TRUE
                 new == [old EXCEPT ![column] = value]
             IN  Returned([S EXCEPT !.images = (@ \ {old}) \cup {new}],
                          WithLabel(new, S.labels))

toggleImageSelection(S, imageId, isSelected, net) ==
    UpdateImage(S, imageId, "is_selected", isSelected, net)

updateImageComment(S, imageId, comment, net) ==
    UpdateImage(S, imageId, "comment", IF comment = "" THEN NullText ELSE comment, net)

updateImageLabel(S, imageId, labelId, net) ==
    IF net = "ok" /\ labelId # NullId /\ (\E i \in S.images : i.id = imageId)
       /\ ~\E l \in S.labels : l.id = labelId
    THEN Threw(S, ErrForeignKey)
    ELSE UpdateImage(S, imageId, "label_id", labelId, net)

deleteImage(S, imageId, net) ==
    IF net = "fail" THEN Threw(S, ErrTransport)
    ELSE Returned([S EXCEPT !.images = {i \in @ : i.id # imageId}], NoRow)

SetStore(S) ==
    /\ boards' = S.boards
    /\ labels' = S.labels
    /\ images' = S.images
    /\ nextId' = S.nextId

----------------------------------------------------------------------------
(* Direct callers of the store client: one action per exported function.   *)
(* ret keeps the call, its outcome and (touched) the ids of the rows that   *)
(* referenced the deleted row when the call was made.                       *)

ListOps == {"getAllBoards", "getBoardLabels", "getBoardImages", "addMultipleImages"}

Ret(op, args, o, touched) ==
    [op |-> op, args |-> args, status |-> o.status, success |-> o.success,
     error |-> o.error,
     data |-> IF op \in ListOps THEN NoRow ELSE o.data,
     rows |-> IF op \in ListOps /\ o.status = "return" THEN o.data ELSE <<>>,
     touched |-> touched]

NoCall == [op |-> "none", args |-> <<>>, status |-> "return", success |-> TRUE,
           error |-> NoErr, data |-> NoRow, rows |-> <<>>, touched |-> {}]

EmptyStore == [boards |-> {}, labels |-> {}, images |-> {},
               nextId |-> [board |-> 1, label |-> 1, image |-> 1]]

(* history kept for each board id: the passwords it was created with, and  *)
(* whether verifyDeletionPassword has returned success for it               *)
Made(password, deletionPassword) ==
    [password |-> password, deletionPassword |-> deletionPassword, deletionVerified |-> FALSE]

DeletionVerified(history, boardId, o) ==
    IF o.status = "return" /\ o.success /\ boardId \in DOMAIN history
    THEN [history EXCEPT ![boardId].deletionVerified = TRUE]
    ELSE history

InitStore ==
    /\ boards = EmptyStore.boards
    /\ labels = EmptyStore.labels
    /\ images = EmptyStore.images
    /\ nextId = EmptyStore.nextId
    /\ made = <<>>

CallCreateBoard(name, password, deletionPassword, net) ==
    /\ LET o == createBoard(Store, name, password, deletionPassword, net)
       IN  /\ o.S.nextId.board <= MaxBoardIds + 1
           /\ SetStore(o.S)
           /\ made' = IF o.status = "return"
                      THEN Append(made, Made(password, deletionPassword))
                      ELSE made
           /\ ret' = Ret("createBoard", <<name, net>>, o, {})
    /\ UNCHANGED clientVars

CallVerifyBoardPassword(name, password, net) ==
    /\ LET o == verifyBoardPassword(Store, name, password, net)
       IN  ret' = Ret("verifyBoardPassword", <<name, password, net>>, o, {})
    /\ UNCHANGED <<storeVars, made, clientVars>>

CallVerifyDeletionPassword(boardId, password, net) ==
    /\ LET o == verifyDeletionPassword(Store, boardId, password, net)
       IN  /\ ret' = Ret("verifyDeletionPassword", <<boardId, password, net>>, o, {})
           /\ made' = DeletionVerified(made, boardId, o)
    /\ UNCHANGED <<storeVars, clientVars>>

CallDeleteBoard(boardId, net) ==
    /\ LET o == deleteBoard(Store, boardId, net)
       IN  /\ SetStore(o.S)
           /\ ret' = Ret("deleteBoard", <<boardId, net>>, o,
                         {l.id : l \in {l \in labels : l.board_id = boardId}}
                           \cup {i.id : i \in {i \in images : i.board_id = boardId}})
    /\ UNCHANGED <<made, clientVars>>

CallCreateLabel(boardId, name, net) ==
    /\ LET o == createLabel(Store, boardId, name, DefaultColor, net)
       IN  /\ o.S.nextId.label <= MaxLabelIds + 1
           /\ SetStore(o.S)
           /\ ret' = Ret("createLabel", <<boardId, name, net>>, o, {})
    /\ UNCHANGED <<made, clientVars>>

CallUpdateLabel(labelId, name, net) ==
    /\ LET o == updateLabel(Store, labelId, name, DefaultColor, net)
       IN  /\ SetStore(o.S)
           /\ ret' = Ret("updateLabel", <<labelId, name, net>>, o, {})
    /\ UNCHANGED <<made, clientVars>>

CallDeleteLabel(labelId, net) ==
    /\ LET o == deleteLabel(Store, labelId, net)
       IN  /\ SetStore(o.S)
           /\ ret' = Ret("deleteLabel", <<labelId, net>>, o,
                         {i.id : i \in {i \in images : i.label_id = labelId}})
    /\ UNCHANGED <<made, clientVars>>

CallGetBoardLabels(boardId, net) ==
    /\ LET o == getBoardLabels(Store, boardId, net)
       IN  ret' = Ret("getBoardLabels", <<boardId, net>>, o, {})
    /\ UNCHANGED <<storeVars, made, clientVars>>

CallGetBoardImages(boardId, net) ==
    /\ LET o == getBoardImages(Store, boardId, net)
       IN  ret' = Ret("getBoardImages", <<boardId, net>>, o, {})
    /\ UNCHANGED <<storeVars, made, clientVars>>

CallAddMultipleImages(boardId, imgs, labelId, net) ==
    /\ LET o == addMultipleImages(Store, boardId, imgs, labelId, net)
       IN  /\ o.S.nextId.image <= MaxImageIds + 1
           /\ SetStore(o.S)
           /\ ret' = Ret("addMultipleImages", <<boardId, labelId, net>>, o, {})
    /\ UNCHANGED <<made, clientVars>>

CallToggleImageSelection(imageId, isSelected, net) ==
    /\ LET o == toggleImageSelection(Store, imageId, isSelected, net)
       IN  /\ SetStore(o.S)
           /\ ret' = Ret("toggleImageSelection", <<imageId, isSelected, net>>, o, {})
    /\ UNCHANGED <<made, clientVars>>

CallUpdateImageLabel(imageId, labelId, net) ==
    /\ LET o == updateImageLabel(Store, imageId, labelId, net)
       IN  /\ SetStore(o.S)
           /\ ret' = Ret("updateImageLabel", <<imageId, labelId, net>>, o, {})
    /\ UNCHANGED <<made, clientVars>>

CallDeleteImage(imageId, net) ==
    /\ LET o == deleteImage(Store, imageId, net)
       IN  /\ SetStore(o.S)
           /\ ret' = Ret("deleteImage", <<imageId, net>>, o, {})
    /\ UNCHANGED <<made, clientVars>>

----------------------------------------------------------------------------
(* The view layer: the Board page (src/src/pages/Board.jsx) and its image   *)
(* cards (src/src/components/ImageCard.jsx).                                *)

FILTER_ALL == "all"
FILTER_SELECTED == "selected"
FILTER_UNSELECTED == "unselected"
Filters == {FILTER_ALL, FILTER_SELECTED, FILTER_UNSELECTED}

(* changed: addToast or the expiry timer has called setToasts, so that     *)
(* ToastProvider hands its consumers a new context value, and the effects *)
(* that list toast among their dependencies have not yet run again        *)
NoToast == [type |-> "none", message |-> "", changed |-> FALSE]
Toast(type, message) == [type |-> type, message |-> message, changed |-> TRUE]
(* the notification once the effects depending on toast have run *)
Shown(t) == [t EXCEPT !.changed = FALSE]

(* useState initial values of Board when location.state carries st *)
NoNav == [board |-> NoRow, authenticated |-> FALSE]
InitialPage(st) ==
    [board |-> st.board, isAuthenticated |-> st.authenticated,
     images |-> <<>>, labels |-> <<>>, isLoading |-> TRUE,
     showPasswordModal |-> FALSE, isVerifying |-> FALSE, showLabelManager |-> FALSE,
     activeFilter |-> FILTER_ALL, selectedLabelFilter |-> NullId]

SelectedOnly(imgs) == SelectSeq(imgs, LAMBDA img : img.is_selected)
UnselectedOnly(imgs) == SelectSeq(imgs, LAMBDA img : ~img.is_selected)
LabelledWith(imgs, labelId) == SelectSeq(imgs, LAMBDA img : img.label.id = labelId)

filteredImagesElseIf(imgs, activeFilter, selectedLabelFilter) ==
    IF activeFilter = FILTER_SELECTED THEN SelectedOnly(imgs)
    ELSE IF activeFilter = FILTER_UNSELECTED THEN UnselectedOnly(imgs)
    ELSE IF selectedLabelFilter # NullId THEN LabelledWith(imgs, selectedLabelFilter)
    ELSE imgs

filteredImages(imgs, activeFilter, selectedLabelFilter) ==
    LET result == IF activeFilter = FILTER_SELECTED THEN SelectedOnly(imgs)
                  ELSE IF activeFilter = FILTER_UNSELECTED THEN UnselectedOnly(imgs)
                  ELSE imgs
    IN  IF selectedLabelFilter # NullId      \* '' is falsy, a label id is not
        THEN LabelledWith(result, selectedLabelFilter)
        ELSE result

Displayed(pg) == filteredImages(pg.images, pg.activeFilter, pg.selectedLabelFilter)

Ids(seq) == {seq[k].id : k \in 1..Len(seq)}
ImageIn(seq, id) == seq[CHOOSE k \in 1..Len(seq) : seq[k].id = id]

(* ImageCard's useState initial values for the image it is mounted with *)
(* image.comment || '' *)
CommentText(img) == IF img.comment = NullText THEN "" ELSE img.comment

NewCard(img) ==
    [isSelected |-> img.is_selected, isUpdating |-> FALSE, isDeleting |-> FALSE,
     showDetails |-> FALSE, comment |-> CommentText(img), isSavingComment |-> FALSE,
     showDeleteModal |-> FALSE, deletionPassword |-> <<>>, isVerifyingDelete |-> FALSE]

(* The image grid is rendered when the page is authenticated and not       *)
(* loading: one ImageCard per displayed image, keyed by image.id.  A card   *)
(* that stays in the grid keeps its state, a card that enters it is         *)
(* mounted afresh, a card that leaves it is unmounted.                      *)
GridIds(pg) == IF pg.isAuthenticated /\ ~pg.isLoading THEN Ids(Displayed(pg)) ELSE {}

Render(pg, cs) ==
    [id \in GridIds(pg) |->
        IF id \in DOMAIN cs THEN cs[id] ELSE NewCard(ImageIn(pg.images, id))]

(* a suspended handler of an unmounted card still runs on, but its setState *)
(* calls no longer reach a card                                             *)
Orphan(rs, pg) ==
    {IF r.card /\ r.image \notin GridIds(pg) THEN [r EXCEPT !.card = FALSE] ELSE r : r \in rs}

(* the page component is unmounted (to = "unmounted") or the document is    *)
(* unloaded (to = "unloaded"): its suspended handlers lose their component  *)
Unhost(rs, to) ==
    {[r EXCEPT !.card = FALSE,
               !.host = IF @ = "unloaded" THEN @ ELSE to] : r \in rs}

(* A handler suspended at an await: n tells the suspended invocations apart, *)
(* host says whether the page component that started it is still mounted    *)
(* ("unloaded": the document itself is gone and the handler never resumes), *)
(* card whether the ImageCard that started it is still mounted; board,      *)
(* name, image, label, arg, was, text, files and results are the values its *)
(* closure holds; out (and out2, for the handler's second query) is the     *)
(* store's answer once the request has been served; log is history: the     *)
(* outcome of each drive upload the handler has awaited.                    *)
Pending == [status |-> "pending", success |-> FALSE, error |-> NoErr, data |-> NoRow, rows |-> <<>>]
Answer(op, o) ==
    [status |-> o.status, success |-> o.success, error |-> o.error,
     data |-> IF op \in ListOps THEN NoRow ELSE o.data,
     rows |-> IF op \in ListOps /\ o.status = "return" THEN o.data ELSE <<>>]

Req(n, kind, image, arg, was, text) ==
    [n |-> n, kind |-> kind, host |-> "mounted", board |-> NoRow, name |-> "",
     image |-> image, card |-> image # NullId, arg |-> arg, was |-> was, text |-> text,
     label |-> NullId, files |-> <<>>, results |-> <<>>, log |-> <<>>,
     stage |-> "sent", out |-> Pending, out2 |-> Pending]

FreeReq == CHOOSE n \in 1..(Cardinality(reqs) + 1) : \A r \in reqs : r.n # n

HomePath == "/"
BoardPath == "/board/:boardName"
Route(path, boardName, state) == [path |-> path, boardName |-> boardName, state |-> state]

(* useState initial values of Home *)
InitialHome ==
    [boards |-> <<>>, isLoading |-> TRUE, showCreateModal |-> FALSE, isCreating |-> FALSE,
     showPasswordModal |-> FALSE, selectedBoard |-> NoRow, isVerifying |-> FALSE]

(* useState initial values of UploadModal, with Board's showUploadModal *)
InitialUpload ==
    [isOpen |-> FALSE, files |-> <<>>, isUploading |-> FALSE, selectedLabelId |-> NullId]

(* googleDrive.js when the document is loaded: no script element, the     *)
(* module variables at their initial values.  apiScript and gisScript are  *)
(* the two script elements ("absent", "loading", "loaded", "failed";       *)
(* "ready" once gapi.load('picker') has called back); loader is the        *)
(* loadGoogleDriveApi call whose resolve and reject the scripts' handlers  *)
(* hold, callback the getAccessToken call whose resolve and reject         *)
(* tokenClient.callback holds (0: none, or a promise already settled);     *)
(* asked counts the requestAccessToken calls not answered yet.             *)
InitialDrive ==
    [apiScript |-> "absent", gisScript |-> "absent", loader |-> NullId,
     pickerApiLoaded |-> FALSE, gisLoaded |-> FALSE, tokenClient |-> FALSE,
     accessToken |-> FALSE, callback |-> NullId, asked |-> 0]

(* no page of this client is under study: the store is called directly *)
InitShellIdle ==
    /\ route = Route(HomePath, "", NoNav)
    /\ home = InitialHome
    /\ upload = InitialUpload
    /\ granted = {}
    /\ drive = InitialDrive

InitClientIdle ==
    /\ page = InitialPage(NoNav)
    /\ cards = <<>>
    /\ reqs = {}
    /\ toast = NoToast
    /\ InitShellIdle

----------------------------------------------------------------------------
(* Board access: boards are created, looked up by name and password, and   *)
(* deleted, by any caller of the store client.                             *)

InitBoards ==
    /\ InitStore
    /\ InitClientIdle
    /\ ret = NoCall

NextBoards ==
    \/ \E name \in BoardNames, p \in Passwords, d \in DeletionPasswords, net \in Nets :
          CallCreateBoard(name, p, d, net)
    \/ \E name \in BoardNames, c \in Passwords, net \in Nets :
          CallVerifyBoardPassword(name, c, net)
    \/ \E id \in 1..MaxBoardIds, d \in DeletionPasswords, net \in Nets :
          CallVerifyDeletionPassword(id, d, net)
    \/ \E id \in 1..MaxBoardIds, net \in Nets :
          CallDeleteBoard(id, net)

SpecBoards == InitBoards /\ [][NextBoards]_vars

(* C1: for every board B in the store, created with view password p, and     *)
(* every candidate c, verifyBoardPassword(B.name, c) answers success with B   *)
(* when c = p and failure without a board when c differs from p; the last     *)
(* verifyBoardPassword call that reached the store answered so.               *)
C1_VerifyGrantsExactlyThePassword ==
    /\ \A b \in boards : \A c \in Passwords :
          LET o == verifyBoardPassword(Store, b.name, c, "ok")
          IN  IF c = made[b.id].password
              THEN o.status = "return" /\ o.success /\ o.data = b
              ELSE o.status = "return" /\ ~o.success /\ o.data = NoRow
    /\ (ret.op = "verifyBoardPassword" /\ ret.args[3] = "ok") =>
          \A b \in boards : b.name = ret.args[1] =>
              /\ ret.success <=> (ret.args[2] = made[b.id].password)
              /\ ret.data = IF ret.success THEN b ELSE NoRow

C1_Witness ==
    /\ ret.op = "verifyBoardPassword"
    /\ ret.success
    /\ ret.data \in boards
    /\ ret.args[2] # <<>>
    /\ \E b \in boards : b.name # ret.args[1] /\ made[b.id].password # ret.args[2]

(* C2: a createBoard that reaches the store with the exact name of an        *)
(* existing board throws the duplicate-name error and leaves the boards      *)
(* unchanged; no failed createBoard changes the boards; no two boards ever   *)
(* share a name.                                                             *)
C2_DuplicateNameRejected ==
    /\ [](\A b1 \in boards, b2 \in boards : b1.name = b2.name => b1 = b2)
    /\ [][ (ret'.op = "createBoard" /\ ret' # ret) =>
             /\ (ret'.args[2] = "ok" /\ BoardByName(ret'.args[1]) # {}) =>
                   (ret'.status = "throw" /\ ret'.error = MsgDupBoard)
             /\ ret'.status = "throw" => boards' = boards
             /\ ret'.status = "return" =>
                   (BoardByName(ret'.args[1]) = {} /\ boards' = boards \cup {ret'.data}) ]_vars

C2_Witness ==
    /\ ret.op = "createBoard"
    /\ ret.error = MsgDupBoard
    /\ \E b1 \in boards, b2 \in boards : b1.name = "a" /\ b2.name = "A"

----------------------------------------------------------------------------
(* Labels of boards: created, renamed and deleted under boards that come    *)
(* and go.                                                                  *)

StorePw == <<233>>

InitLabels ==
    /\ InitStore
    /\ InitClientIdle
    /\ ret = NoCall

NextLabels ==
    \/ \E name \in BoardNames, net \in Nets :
          CallCreateBoard(name, StorePw, StorePw, net)
    \/ \E id \in 1..MaxBoardIds, net \in Nets :
          CallDeleteBoard(id, net)
    \/ \E id \in 1..MaxBoardIds, name \in LabelNames, net \in Nets :
          CallCreateLabel(id, name, net)
    \/ \E id \in 1..MaxLabelIds, name \in LabelNames, net \in Nets :
          CallUpdateLabel(id, name, net)
    \/ \E id \in 1..MaxLabelIds, net \in Nets :
          CallDeleteLabel(id, net)
    \/ \E id \in 1..MaxBoardIds, net \in Nets :
          CallGetBoardLabels(id, net)

SpecLabels == InitLabels /\ [][NextLabels]_vars

(* C3: while a label named N exists under board B, a createLabel(B, N, _)    *)
(* that reaches the store throws the duplicate-in-board error and adds no    *)
(* label; createLabel(B2, N, _) for a board B2 that has no label named N     *)
(* succeeds and adds exactly that label, whatever labels other boards hold.  *)
C3_LabelNameUniquePerBoard ==
    [][ (ret'.op = "createLabel" /\ ret' # ret /\ ret'.args[3] = "ok") =>
          LET B == ret'.args[1]
              N == ret'.args[2]
          IN  IF \E l \in labels : l.board_id = B /\ l.name = N
              THEN ret'.status = "throw" /\ ret'.error = MsgDupLabel /\ labels' = labels
              ELSE BoardById(B) # {} =>
                      /\ ret'.status = "return"
                      /\ ret'.data.board_id = B /\ ret'.data.name = N
                      /\ ret'.data \notin labels
                      /\ labels' = labels \cup {ret'.data} ]_vars

C3_Witness ==
    /\ ret.op = "createLabel"
    /\ ret.status = "return"
    /\ \E l \in labels : l.name = ret.data.name /\ l.board_id # ret.data.board_id

C3_WitnessDuplicate ==
    /\ ret.op = "createLabel"
    /\ ret.error = MsgDupLabel

----------------------------------------------------------------------------
(* Labels and images of boards.  Callers pass what the view layer passes:   *)
(* a label offered for an image is a label of the image's board (Board.jsx  *)
(* hands ImageCard and UploadModal the labels loaded for board.id).         *)

Files == {"f1", "f2"}
Comments == {"", "hi"}

FileLists == {<<[driveFileId |-> "f1"]>>, <<[driveFileId |-> "f1"], [driveFileId |-> "f2"]>>}

LabelIdsOf(boardId) == {l.id : l \in {l \in labels : l.board_id = boardId}}

InitTables ==
    /\ InitStore
    /\ InitClientIdle
    /\ ret = NoCall

NextTables ==
    \/ \E name \in BoardNames, net \in Nets :
          CallCreateBoard(name, StorePw, StorePw, net)
    \/ \E id \in 1..MaxBoardIds, net \in Nets :
          CallDeleteBoard(id, net)
    \/ \E id \in 1..MaxBoardIds, name \in LabelNames, net \in Nets :
          CallCreateLabel(id, name, net)
    \/ \E id \in 1..MaxLabelIds, net \in Nets :
          CallDeleteLabel(id, net)
    \/ \E id \in 1..MaxBoardIds, net \in Nets :
          CallGetBoardImages(id, net)
    \/ \E id \in 1..MaxBoardIds, fs \in FileLists, net \in Nets :
          \E lid \in {NullId} \cup LabelIdsOf(id) :
              CallAddMultipleImages(id, fs, lid, net)
    \/ \E i \in images, net \in Nets :
          \E lid \in {NullId} \cup LabelIdsOf(i.board_id) :
              CallUpdateImageLabel(i.id, lid, net)
    \/ \E id \in 1..MaxImageIds, net \in Nets :
          CallDeleteImage(id, net)

SpecTables == InitTables /\ [][NextTables]_vars

(* C4: a successful deleteLabel(L) removes no image: every image row keeps   *)
(* its id and all its fields except that label_id becomes null where it was  *)
(* L, and the next getBoardImages of each board returns those images with    *)
(* label_id null and no joined label.                                        *)
C4_LabelDeleteKeepsImages ==
    [][ (ret'.op = "deleteLabel" /\ ret' # ret /\ ret'.status = "return") =>
          LET L == ret'.args[1]
          IN  /\ images' = {IF i.label_id = L THEN [i EXCEPT !.label_id = NullId] ELSE i
                              : i \in images}
              /\ \A i \in images : i.label_id = L =>
                    LET got == getBoardImages(Store', i.board_id, "ok").data
                    IN  \E k \in 1..Len(got) :
                           /\ got[k].id = i.id
                           /\ got[k].label_id = NullId
                           /\ got[k].label = NoRow ]_vars

C4_Witness ==
    /\ ret.op = "deleteLabel"
    /\ ret.status = "return"
    /\ ret.touched # {}
    /\ \A id \in ret.touched : \E i \in images : i.id = id /\ i.label_id = NullId

----------------------------------------------------------------------------
(* Filtering: the displayed set as a function of the loaded list and the    *)
(* two filter controls.  The list is what getBoardImages returns for a      *)
(* board holding up to MaxListLen images.                                   *)

MaxListLen == 3

FilterBoard == createBoard(EmptyStore, "a", StorePw, StorePw, "ok")
FilterLabels ==
    LET b == FilterBoard.data.id
        s1 == createLabel(FilterBoard.S, b, "x", DefaultColor, "ok").S
    IN  createLabel(s1, b, "y", DefaultColor, "ok").S

ImageRowSets ==
    UNION {[1..n -> [is_selected : BOOLEAN,
                     label_id : {NullId} \cup {l.id : l \in FilterLabels.labels}]]
              : n \in 0..MaxListLen}

RowsOf(f) ==
    {[id |-> k, board_id |-> FilterBoard.data.id, label_id |-> f[k].label_id,
      drive_file_id |-> "f1", is_selected |-> f[k].is_selected, comment |-> NullText]
        : k \in DOMAIN f}

InitFilter ==
    /\ \E f \in ImageRowSets :
          /\ boards = FilterLabels.boards
          /\ labels = FilterLabels.labels
          /\ images = RowsOf(f)
          /\ nextId = [FilterLabels.nextId EXCEPT !.image = Len(f) + 1]
    /\ made = <<Made(StorePw, StorePw)>>
    /\ ret = NoCall
    /\ page = [InitialPage([board |-> FilterBoard.data, authenticated |-> TRUE]) EXCEPT
                  !.images = getBoardImages(Store, FilterBoard.data.id, "ok").data,
                  !.labels = getBoardLabels(Store, FilterBoard.data.id, "ok").data,
                  !.isLoading = FALSE]
    /\ cards = Render(page, <<>>)
    /\ reqs = {}
    /\ toast = NoToast
    /\ route = Route(BoardPath, FilterBoard.data.name,
                     [board |-> FilterBoard.data, authenticated |-> TRUE])
    /\ home = InitialHome
    /\ upload = InitialUpload
    /\ granted = {FilterBoard.data.name}
    /\ drive = InitialDrive

(* a filter button that stores the filtered result as the list *)
setActiveFilterKeepingResult(f) ==
    /\ page.isAuthenticated
    /\ page' = [page EXCEPT !.activeFilter = f,
                            !.images = filteredImages(@, f, page.selectedLabelFilter)]
    /\ cards' = Render(page', cards)
    /\ reqs' = Orphan(reqs, page')
    /\ UNCHANGED <<shellVars, storeVars, made, ret, toast>>

(* onClick of a filter button *)
setActiveFilter(f) ==
    /\ page.isAuthenticated
    /\ page' = [page EXCEPT !.activeFilter = f]
    /\ cards' = Render(page', cards)
    /\ reqs' = Orphan(reqs, page')
    /\ UNCHANGED <<shellVars, storeVars, made, ret, toast>>

(* onChange of the label select, rendered when labels.length > 0 *)
setSelectedLabelFilter(g) ==
    /\ page.isAuthenticated
    /\ Len(page.labels) > 0
    /\ g \in {NullId} \cup Ids(page.labels)
    /\ page' = [page EXCEPT !.selectedLabelFilter = g]
    /\ cards' = Render(page', cards)
    /\ reqs' = Orphan(reqs, page')
    /\ UNCHANGED <<shellVars, storeVars, made, ret, toast>>

(* "Clear Filters", offered when nothing matches *)
ClearFilters ==
    /\ page.isAuthenticated /\ ~page.isLoading
    /\ Len(Displayed(page)) = 0 /\ Len(page.images) # 0
    /\ page' = [page EXCEPT !.activeFilter = FILTER_ALL, !.selectedLabelFilter = NullId]
    /\ cards' = Render(page', cards)
    /\ reqs' = Orphan(reqs, page')
    /\ UNCHANGED <<shellVars, storeVars, made, ret, toast>>

NextFilter ==
    \/ \E f \in Filters : setActiveFilter(f)
    \/ \E g \in 0..MaxLabelIds : setSelectedLabelFilter(g)
    \/ ClearFilters

SpecFilter == InitFilter /\ [][NextFilter]_vars

MatchesSelection(img, f) ==
    \/ f = FILTER_ALL
    \/ f = FILTER_SELECTED /\ img.is_selected
    \/ f = FILTER_UNSELECTED /\ ~img.is_selected
MatchesLabel(img, g) == g = NullId \/ img.label_id = g

(* C7: for the loaded list, selection filter f and label filter g, the       *)
(* displayed list holds exactly the images that f alone and g alone both     *)
(* display, in the order of the loaded list; f = selected without a label    *)
(* filter displays exactly the selected images, and g = X with f = all       *)
(* exactly the images labelled X; one card is mounted per displayed image.   *)
C7_FilterIsIntersection ==
    LET imgs == page.images
        f == page.activeFilter
        g == page.selectedLabelFilter
        D == Displayed(page)
    IN  /\ Ids(D) = Ids(filteredImages(imgs, f, NullId)) \cap Ids(filteredImages(imgs, FILTER_ALL, g))
        /\ D = SelectSeq(imgs, LAMBDA img : MatchesSelection(img, f) /\ MatchesLabel(img, g))
        /\ (f = FILTER_SELECTED /\ g = NullId) =>
               Ids(D) = {i.id : i \in {i \in images : i.is_selected}}
        /\ (f = FILTER_ALL /\ g # NullId) =>
               Ids(D) = {i.id : i \in {i \in images : i.label_id = g}}
        /\ DOMAIN cards = Ids(D)

C7_Witness ==
    /\ page.activeFilter = FILTER_SELECTED
    /\ page.selectedLabelFilter # NullId
    /\ Len(page.images) = 3
    /\ Len(Displayed(page)) = 1
    /\ Len(filteredImages(page.images, FILTER_SELECTED, NullId)) = 2
    /\ Len(filteredImages(page.images, FILTER_ALL, page.selectedLabelFilter)) = 2

----------------------------------------------------------------------------
(* An authenticated Board page and its image cards.  The page has just been *)
(* opened with navigation state {board, authenticated: true}; its mount     *)
(* effect has called loadData.  The board holds MaxImageIds images, the     *)
(* first of them labelled.                                                  *)

MaxInFlight == 2    \* handler invocations suspended at the same time

CardDelPw == <<233>>

CardStore ==
    LET s1 == createBoard(EmptyStore, "a", StorePw, CardDelPw, "ok").S
        s2 == createLabel(s1, 1, "x", DefaultColor, "ok").S
        s3 == addMultipleImages(s2, 1, [k \in 1..MaxImageIds |-> [driveFileId |-> "f1"]],
                                NullId, "ok").S
    IN  updateImageLabel(s3, 1, 1, "ok").S

CardBoard == CHOOSE b \in CardStore.boards : TRUE

InitCard ==
    /\ boards = CardStore.boards
    /\ labels = CardStore.labels
    /\ images = CardStore.images
    /\ nextId = CardStore.nextId
    /\ made = <<Made(StorePw, CardDelPw)>>
    /\ ret = NoCall
    /\ page = InitialPage([board |-> CardBoard, authenticated |-> TRUE])
    /\ cards = <<>>
    /\ reqs = {[Req(1, "loadData", NullId, FALSE, FALSE, <<>>) EXCEPT !.board = CardBoard]}
    /\ toast = NoToast
    /\ route = Route(BoardPath, CardBoard.name, [board |-> CardBoard, authenticated |-> TRUE])
    /\ home = InitialHome
    /\ upload = InitialUpload
    /\ granted = {CardBoard.name}
    /\ drive = InitialDrive

(* what a step of the page leaves behind: the grid re-rendered for the new  *)
(* page state, and the handlers of cards that left the grid cut off         *)
Rerender(pg, cs, rs) ==
    /\ page' = pg
    /\ cards' = Render(pg, [id \in DOMAIN cs \cap GridIds(pg) |-> cs[id]])
    /\ reqs' = Orphan(rs, pg)

(* Board's two effects on the mounted page pg with rs the suspended         *)
(* handlers: loadBoard (run when runLoadBoard) fetches the board when       *)
(* there is none and shows the prompt when there is one unauthenticated;    *)
(* the loadData effect (run when runLoadData) calls loadData when           *)
(* authenticated                                                            *)
BoardEffects(pg, rs, boardName, runLoadBoard, runLoadData) ==
    LET n == CHOOSE n \in 1..(Cardinality(rs) + 1) : \A r \in rs : r.n # n
    IN  IF pg.isAuthenticated
        THEN IF runLoadData /\ pg.board # NoRow
             THEN [page |-> [pg EXCEPT !.isLoading = TRUE],
                   reqs |-> rs \cup {[Req(n, "loadData", NullId, FALSE, FALSE, <<>>)
                                         EXCEPT !.board = pg.board]}]
             ELSE [page |-> pg, reqs |-> rs]
        ELSE IF ~runLoadBoard THEN [page |-> pg, reqs |-> rs]
        ELSE IF pg.board = NoRow
        THEN [page |-> pg,
              reqs |-> rs \cup {[Req(n, "loadBoard", NullId, FALSE, FALSE, <<>>)
                                    EXCEPT !.name = boardName]}]
        ELSE [page |-> [pg EXCEPT !.showPasswordModal = TRUE], reqs |-> rs]

(* the effects that list toast among their dependencies run again after    *)
(* ToastProvider has rendered with a changed toasts state: Home's          *)
(* loadBoards effect, Board's loadBoard and loadData effects               *)
ToastEffects ==
    /\ toast.changed
    /\ toast' = Shown(toast)
    /\ IF route.path = HomePath
       THEN /\ reqs' = reqs \cup {Req(FreeReq, "loadBoards", NullId, FALSE, FALSE, <<>>)}
            /\ UNCHANGED <<page, cards>>
       ELSE LET eff == BoardEffects(page, reqs, route.boardName, TRUE, TRUE)
            IN  Rerender(eff.page, cards, eff.reqs)
    /\ UNCHANGED <<shellVars, storeVars, made, ret>>

(* setTimeout(..., duration) of addToast removes the notification *)
ToastExpired ==
    /\ toast.type # "none" /\ ~toast.changed
    /\ Cardinality(reqs) < MaxInFlight
    /\ toast' = [NoToast EXCEPT !.changed = TRUE]
    /\ UNCHANGED <<shellVars, storeVars, made, ret, page, cards, reqs>>

(* no other handler runs between a render and the effects it schedules *)
EffectsFlushed == ~toast.changed

(* loadData: getBoardImages and getBoardLabels are sent together *)
loadData ==
    /\ page.board # NoRow /\ page.isAuthenticated
    /\ Cardinality(reqs) < MaxInFlight
    /\ Rerender([page EXCEPT !.isLoading = TRUE], cards,
                reqs \cup {[Req(FreeReq, "loadData", NullId, FALSE, FALSE, <<>>)
                               EXCEPT !.board = page.board]})
    /\ UNCHANGED <<shellVars, storeVars, made, ret, toast>>

ServeGetBoardImages(r, net) ==
    /\ r \in reqs /\ r.kind = "loadData" /\ r.out = Pending
    /\ reqs' = (reqs \ {r}) \cup
               {[r EXCEPT !.out = Answer("getBoardImages", getBoardImages(Store, r.board.id, net))]}
    /\ UNCHANGED <<shellVars, storeVars, made, ret, page, cards, toast>>

ServeGetBoardLabels(r, net) ==
    /\ r \in reqs /\ r.kind = "loadData" /\ r.out2 = Pending
    /\ reqs' = (reqs \ {r}) \cup
               {[r EXCEPT !.out2 = Answer("getBoardLabels", getBoardLabels(Store, r.board.id, net))]}
    /\ UNCHANGED <<shellVars, storeVars, made, ret, page, cards, toast>>

(* Promise.all settles: both answers in, or the first rejection *)
LoadDataDone(r) ==
    /\ r \in reqs /\ r.kind = "loadData" /\ r.host # "unloaded"
    /\ \/ /\ r.out.status = "return" /\ r.out2.status = "return"
          /\ Rerender(IF r.host = "mounted"
                      THEN [page EXCEPT !.images = r.out.rows, !.labels = r.out2.rows,
                                        !.isLoading = FALSE]
                      ELSE page, cards, reqs \ {r})
          /\ toast' = toast
       \/ /\ r.out.status = "throw" \/ r.out2.status = "throw"
          /\ Rerender(IF r.host = "mounted" THEN [page EXCEPT !.isLoading = FALSE] ELSE page,
                      cards, reqs \ {r})
          /\ toast' = Toast("error", "Failed to load board data")
    /\ UNCHANGED <<shellVars, storeVars, made, ret>>

handleImageUpdateFirst(imgs, updatedImage) ==
    <<updatedImage>> \o SelectSeq(imgs, LAMBDA img : img.id # updatedImage.id)

(* handleImageUpdate: setImages(prev => prev.map(...)) *)
handleImageUpdate(imgs, updatedImage) ==
    [k \in 1..Len(imgs) |-> IF imgs[k].id = updatedImage.id THEN updatedImage ELSE imgs[k]]

(* handleImageDelete: setImages(prev => prev.filter(...)) *)
handleImageDelete(imgs, imageId) == SelectSeq(imgs, LAMBDA img : img.id # imageId)

(* handleToggle without "if (isUpdating) return" *)
handleToggleUnguarded(id) ==
    /\ id \in DOMAIN cards
    /\ Cardinality(reqs) < MaxInFlight
    /\ LET newValue == ~cards[id].isSelected
       IN  /\ cards' = [cards EXCEPT ![id].isUpdating = TRUE, ![id].isSelected = newValue]
           /\ reqs' = reqs \cup {Req(FreeReq, "toggle", id, newValue, cards[id].isSelected, <<>>)}
    /\ UNCHANGED <<shellVars, storeVars, made, ret, page, toast>>

(* ImageCard.handleToggle up to its await *)
handleToggle(id) ==
    /\ id \in DOMAIN cards
    /\ ~cards[id].isUpdating
    /\ Cardinality(reqs) < MaxInFlight
    /\ LET newValue == ~cards[id].isSelected
       IN  /\ cards' = [cards EXCEPT ![id].isUpdating = TRUE, ![id].isSelected = newValue]
           /\ reqs' = reqs \cup {Req(FreeReq, "toggle", id, newValue, cards[id].isSelected, <<>>)}
    /\ UNCHANGED <<shellVars, storeVars, made, ret, page, toast>>

ServeToggleImageSelection(r, net) ==
    /\ r \in reqs /\ r.kind = "toggle" /\ r.stage = "sent"
    /\ LET o == toggleImageSelection(Store, r.image, r.arg, net)
       IN  /\ SetStore(o.S)
           /\ reqs' = (reqs \ {r}) \cup
                      {[r EXCEPT !.stage = "served", !.out = Answer("toggleImageSelection", o)]}
    /\ UNCHANGED <<shellVars, made, ret, page, cards, toast>>

RevertKeep(r, c) == c

(* catch: setIsSelected(!newValue) *)
RevertSelection(r, c) == [c EXCEPT !.isSelected = ~r.arg]

(* ImageCard.handleToggle from its await on; setState reaches the card only *)
(* while it is mounted                                                      *)
ToggleDone(r) ==
    /\ r \in reqs /\ r.kind = "toggle" /\ r.stage = "served" /\ r.host # "unloaded"
    /\ LET ok == r.out.status = "return"
           cs == IF r.card
                 THEN [cards EXCEPT ![r.image] =
                          [(IF ok THEN @ ELSE RevertSelection(r, @)) EXCEPT !.isUpdating = FALSE]]
                 ELSE cards
           pg == IF ok /\ r.host = "mounted"
                 THEN [page EXCEPT !.images = handleImageUpdate(@, r.out.data)]
                 ELSE page
       IN  /\ Rerender(pg, cs, reqs \ {r})
           /\ toast' = IF ok THEN toast ELSE Toast("error", "Failed to update selection")
    /\ UNCHANGED <<shellVars, storeVars, made, ret>>

CardEvents ==
    \/ \E r \in reqs, net \in Nets : ServeGetBoardImages(r, net)
    \/ \E r \in reqs, net \in Nets : ServeGetBoardLabels(r, net)
    \/ \E r \in reqs : LoadDataDone(r)
    \/ \E id \in 1..MaxImageIds : handleToggle(id)
    \/ \E r \in reqs, net \in Nets : ServeToggleImageSelection(r, net)
    \/ \E r \in reqs : ToggleDone(r)
    \/ \E f \in Filters : setActiveFilter(f)
    \/ \E g \in 0..MaxLabelIds : setSelectedLabelFilter(g)
    \/ ClearFilters

NextCard ==
    \/ ToastEffects
    \/ EffectsFlushed /\ ToastExpired
    \/ EffectsFlushed /\ CardEvents

SpecCard == InitCard /\ [][NextCard]_vars
(* C6: ImageCard.handleToggle shows the negated selected flag before the    *)
(* store responds (the flag stays negated for as long as the request is     *)
(* outstanding); when toggleImageSelection fails the card's flag returns to *)
(* the value it had before the toggle, the board's local image list is      *)
(* unchanged and the error notification is raised.                          *)
C6_OptimisticToggleRollsBack ==
    /\ [](\A r \in reqs : (r.kind = "toggle" /\ r.card) =>
              /\ r.image \in DOMAIN cards
              /\ cards[r.image].isSelected = ~r.was
              /\ cards[r.image].isUpdating)
    /\ [][/\ \A id \in DOMAIN cards : handleToggle(id) =>
                /\ cards'[id].isSelected = ~cards[id].isSelected
                /\ images' = images
          /\ \A r \in reqs : (ToggleDone(r) /\ r.out.status = "throw") =>
                /\ page'.images = page.images
                /\ toast' = Toast("error", "Failed to update selection")
                /\ r.card => /\ r.image \in DOMAIN cards'
                             /\ cards'[r.image].isSelected = r.was
                             /\ ~cards'[r.image].isUpdating]_vars

(* a toggle has failed and its card, still mounted, is back on the list's value *)
C6_Witness ==
    /\ toast = Toast("error", "Failed to update selection")
    /\ \E id \in DOMAIN cards :
          /\ ~cards[id].isUpdating
          /\ cards[id].isSelected = ImageIn(page.images, id).is_selected
          /\ \A r \in reqs : r.image # id
----------------------------------------------------------------------------
(* Deleting an image from its card: the deletion-password modal and         *)
(* handleConfirmDelete, which verifies the entered password and only then   *)
(* asks the store to delete.                                                *)

WhiteSpace == {9, 10, 11, 12, 13, 32, 160}

RECURSIVE TrimStart(_)
TrimStart(s) == IF s # <<>> /\ Head(s) \in WhiteSpace THEN TrimStart(Tail(s)) ELSE s

RECURSIVE TrimEnd(_)
TrimEnd(s) ==
    IF s # <<>> /\ s[Len(s)] \in WhiteSpace THEN TrimEnd(SubSeq(s, 1, Len(s) - 1)) ELSE s

(* String.prototype.trim *)
Trim(s) == TrimEnd(TrimStart(s))

(* what the user may type into the deletion-password field *)
TypedDeletionPasswords == {<<233>>, <<233, 32>>}

handleDeleteClick(id) ==
    /\ id \in DOMAIN cards
    /\ ~cards[id].isDeleting
    /\ \A other \in DOMAIN cards : ~cards[other].showDeleteModal    \* the modal covers the grid
    /\ cards' = [cards EXCEPT ![id].deletionPassword = <<>>, ![id].showDeleteModal = TRUE]
    /\ UNCHANGED <<shellVars, storeVars, made, ret, page, reqs, toast>>

setDeletionPassword(id, text) ==
    /\ id \in DOMAIN cards
    /\ cards[id].showDeleteModal
    /\ cards' = [cards EXCEPT ![id].deletionPassword = text]
    /\ UNCHANGED <<shellVars, storeVars, made, ret, page, reqs, toast>>

(* backdrop, close button or Cancel *)
CloseDeleteModal(id) ==
    /\ id \in DOMAIN cards
    /\ cards[id].showDeleteModal
    /\ cards' = [cards EXCEPT ![id].showDeleteModal = FALSE]
    /\ UNCHANGED <<shellVars, storeVars, made, ret, page, reqs, toast>>

(* handleConfirmDelete up to its first await; the form exists while the     *)
(* modal is shown                                                           *)
handleConfirmDelete(id) ==
    /\ id \in DOMAIN cards
    /\ cards[id].showDeleteModal
    /\ ~(cards[id].isVerifyingDelete \/ Trim(cards[id].deletionPassword) = <<>>)
    /\ Cardinality(reqs) < MaxInFlight
    /\ cards' = [cards EXCEPT ![id].isVerifyingDelete = TRUE]
    /\ reqs' = reqs \cup {[Req(FreeReq, "delete", id, FALSE, FALSE, cards[id].deletionPassword)
                              EXCEPT !.board = page.board]}
    /\ UNCHANGED <<shellVars, storeVars, made, ret, page, toast>>

(* verifyDeletionPassword(boardId, deletionPassword) reaches the store *)
ServeVerifyDeletionPassword(r, net) ==
    /\ r \in reqs /\ r.kind = "delete" /\ r.stage = "sent"
    /\ LET o == verifyDeletionPassword(Store, r.board.id, r.text, net)
       IN  /\ reqs' = (reqs \ {r}) \cup
                     {[r EXCEPT !.stage = "served", !.out = Answer("verifyDeletionPassword", o)]}
           /\ made' = DeletionVerified(made, r.board.id, o)
    /\ UNCHANGED <<shellVars, storeVars, ret, page, cards, toast>>

PasswordVerifiedAny(result) == TRUE

(* if (!result.success) ... return *)
PasswordVerified(result) == result.success

(* handleConfirmDelete between its two awaits *)
VerifyDeletionDone(r) ==
    /\ r \in reqs /\ r.kind = "delete" /\ r.stage = "served" /\ r.host # "unloaded"
    /\ IF PasswordVerified(r.out)
       THEN /\ cards' = IF r.card THEN [cards EXCEPT ![r.image].isDeleting = TRUE] ELSE cards
            /\ reqs' = (reqs \ {r}) \cup {[r EXCEPT !.stage = "deleting"]}
            /\ toast' = toast
       ELSE /\ cards' = IF r.card
                        THEN [cards EXCEPT ![r.image].isVerifyingDelete = FALSE,
                                           ![r.image].isDeleting = FALSE]
                        ELSE cards
            /\ reqs' = reqs \ {r}
            /\ toast' = Toast("error", r.out.error)
    /\ UNCHANGED <<shellVars, storeVars, made, ret, page>>

(* deleteImage(image.id) reaches the store *)
ServeDeleteImage(r, net) ==
    /\ r \in reqs /\ r.kind = "delete" /\ r.stage = "deleting"
    /\ LET o == deleteImage(Store, r.image, net)
       IN  /\ SetStore(o.S)
           /\ reqs' = (reqs \ {r}) \cup
                      {[r EXCEPT !.stage = "deleted", !.out2 = Answer("deleteImage", o)]}
    /\ UNCHANGED <<shellVars, made, ret, page, cards, toast>>

AfterDeleteAlways(imgs, imageId, out) == handleImageDelete(imgs, imageId)

(* await deleteImage(image.id); onDelete(image.id): the list is touched     *)
(* only when deleteImage did not throw                                      *)
AfterDelete(imgs, imageId, out) ==
    IF out.status = "return" THEN handleImageDelete(imgs, imageId) ELSE imgs

(* handleConfirmDelete from its second await on *)
DeleteDone(r) ==
    /\ r \in reqs /\ r.kind = "delete" /\ r.stage = "deleted" /\ r.host # "unloaded"
    /\ LET ok == r.out2.status = "return"
           cs == IF r.card
                 THEN [cards EXCEPT ![r.image].showDeleteModal = IF ok THEN FALSE ELSE @,
                                    ![r.image].showDetails = IF ok THEN FALSE ELSE @,
                                    ![r.image].isVerifyingDelete = FALSE,
                                    ![r.image].isDeleting = FALSE]
                 ELSE cards
           pg == IF r.host = "mounted"
                 THEN [page EXCEPT !.images = AfterDelete(@, r.image, r.out2)]
                 ELSE page
       IN  /\ Rerender(pg, cs, reqs \ {r})
           /\ toast' = IF ok THEN Toast("success", "Image deleted")
                             ELSE Toast("error", "Failed to delete image")
    /\ UNCHANGED <<shellVars, storeVars, made, ret>>

DeleteEvents ==
    \/ \E r \in reqs, net \in Nets : ServeGetBoardImages(r, net)
    \/ \E r \in reqs, net \in Nets : ServeGetBoardLabels(r, net)
    \/ \E r \in reqs : LoadDataDone(r)
    \/ \E id \in 1..MaxImageIds : handleDeleteClick(id)
    \/ \E id \in 1..MaxImageIds, text \in TypedDeletionPasswords : setDeletionPassword(id, text)
    \/ \E id \in 1..MaxImageIds : CloseDeleteModal(id)
    \/ \E id \in 1..MaxImageIds : handleConfirmDelete(id)
    \/ \E r \in reqs, net \in Nets : ServeVerifyDeletionPassword(r, net)
    \/ \E r \in reqs : VerifyDeletionDone(r)
    \/ \E r \in reqs, net \in Nets : ServeDeleteImage(r, net)
    \/ \E r \in reqs : DeleteDone(r)

NextDelete ==
    \/ ToastEffects
    \/ EffectsFlushed /\ DeleteEvents

SpecDelete == InitCard /\ [][NextDelete]_vars

(* C10: a deleteImage request is sent only by a delete action whose         *)
(* verifyDeletionPassword call, for the image's board and the entered       *)
(* password, returned success (so the entered password is the board's       *)
(* deletion password); when verification does not return success the       *)
(* action sends no delete request and the image stays in the local image    *)
(* list (and in the store).                                                 *)
C10_DeleteOnlyAfterVerification ==
    /\ [](\A r \in reqs : (r.kind = "delete" /\ r.stage \in {"deleting", "deleted"}) =>
              /\ r.out.status = "return" /\ r.out.success
              /\ r.text = made[r.board.id].deletionPassword
              /\ \A i \in CardStore.images : i.id = r.image => i.board_id = r.board.id)
    /\ [][/\ images' # images =>
                \E r \in reqs : /\ r.kind = "delete" /\ r.stage = "deleting" /\ r.out.success
                                /\ images' = {i \in images : i.id # r.image}
          /\ \A r \in reqs : (VerifyDeletionDone(r) /\ ~(r.out.status = "return" /\ r.out.success)) =>
                /\ \A q \in reqs' : q.n # r.n
                /\ page'.images = page.images
                /\ images' = images]_vars

(* a verified delete has been carried out by the store and acknowledged *)
C10_Witness ==
    \E r \in reqs :
        /\ r.kind = "delete" /\ r.stage = "deleted" /\ r.out2.status = "return"
        /\ r.out.success
        /\ \A i \in images : i.id # r.image
        /\ r.image \in Ids(page.images)
----------------------------------------------------------------------------
(* Direct upload: UploadModal.handleUpload sends the chosen files to the    *)
(* drive one after the other (uploadImages) and records the ones that made  *)
(* it with one addMultipleImages call.                                      *)

MaxFiles == 2       \* files chosen for one upload
MaxUploads == 1     \* uploads under way at the same time

(* what one use of the file input (multiple) or one drop may add *)
FileChoices == {[k \in 1..n |-> [name |-> "f" \o ToString(k)]] : n \in 1..MaxFiles}
DriveOutcomes == {"ok", "fail"}

UploadStore ==
    LET s1 == createBoard(EmptyStore, "a", StorePw, CardDelPw, "ok").S
    IN  createLabel(s1, 1, "x", DefaultColor, "ok").S

InitUpload ==
    /\ boards = UploadStore.boards
    /\ labels = UploadStore.labels
    /\ images = UploadStore.images
    /\ nextId = UploadStore.nextId
    /\ made = <<Made(StorePw, CardDelPw)>>
    /\ ret = NoCall
    /\ page = InitialPage([board |-> CardBoard, authenticated |-> TRUE])
    /\ cards = <<>>
    /\ reqs = {[Req(1, "loadData", NullId, FALSE, FALSE, <<>>) EXCEPT !.board = CardBoard]}
    /\ toast = NoToast
    /\ route = Route(BoardPath, CardBoard.name, [board |-> CardBoard, authenticated |-> TRUE])
    /\ home = InitialHome
    /\ upload = InitialUpload
    /\ granted = {CardBoard.name}
    /\ drive = InitialDrive

(* setShowUploadModal(true) *)
OpenUploadModal ==
    /\ page.isAuthenticated
    /\ Cardinality(reqs) < MaxInFlight
    /\ ~upload.isOpen
    /\ upload' = [upload EXCEPT !.isOpen = TRUE]
    /\ UNCHANGED <<storeVars, made, ret, page, cards, reqs, toast, route, home, granted, drive>>

(* handleFileSelect / handleDrop: setFiles(prev => [...prev, ...selectedFiles]) *)
handleFileSelect(selectedFiles) ==
    /\ upload.isOpen
    /\ Len(upload.files) + Len(selectedFiles) <= MaxFiles
    /\ upload' = [upload EXCEPT !.files = @ \o selectedFiles]
    /\ UNCHANGED <<storeVars, made, ret, page, cards, reqs, toast, route, home, granted, drive>>

(* the label select, rendered when labels.length > 0 *)
setSelectedLabelId(labelId) ==
    /\ upload.isOpen
    /\ Len(page.labels) > 0
    /\ labelId \in {NullId} \cup Ids(page.labels)
    /\ upload' = [upload EXCEPT !.selectedLabelId = labelId]
    /\ UNCHANGED <<storeVars, made, ret, page, cards, reqs, toast, route, home, granted, drive>>

(* the handleUpload invocations that have not finished *)
UploadsInFlight == {r \in reqs : r.kind = "upload"}

(* handleUpload up to its await; the Upload button is disabled while        *)
(* isUploading or files.length === 0, so the handler's own empty-list       *)
(* return is never taken                                                    *)
handleUpload ==
    /\ upload.isOpen
    /\ ~(upload.isUploading \/ Len(upload.files) = 0)
    /\ Cardinality(reqs) < MaxInFlight
    /\ nextId.image + Len(upload.files) <= MaxImageIds + 1
    /\ upload' = [upload EXCEPT !.isUploading = TRUE]
    /\ reqs' = reqs \cup {[Req(FreeReq, "upload", NullId, FALSE, FALSE, <<>>) EXCEPT
                              !.board = page.board, !.label = upload.selectedLabelId,
                              !.files = upload.files]}
    /\ UNCHANGED <<storeVars, made, ret, page, cards, toast, route, home, granted, drive>>

(* finally { setIsUploading(false) } *)
UploadSettled(r) == IF r.host = "mounted" THEN [upload EXCEPT !.isUploading = FALSE] ELSE upload

(* uploadImages: await loadGoogleDriveApi() *)
loadGoogleDriveApi(r, outcome) ==
    /\ r \in reqs /\ r.kind = "upload" /\ r.stage = "sent" /\ r.host # "unloaded"
    /\ IF outcome = "ok"
       THEN /\ reqs' = (reqs \ {r}) \cup {[r EXCEPT !.stage = "uploading"]}
            /\ UNCHANGED <<upload, toast>>
       ELSE /\ reqs' = reqs \ {r}
            /\ upload' = UploadSettled(r)
            /\ toast' = Toast("error", "Failed to upload images. Please check your Google Drive setup.")
    /\ UNCHANGED <<storeVars, made, ret, page, cards, route, home, granted, drive>>

(* what uploadFileToDrive resolves to; the drive's id stands for the file *)
DriveFile(file) == [driveFileId |-> file.name]

PushResultAlways(results, file, outcome) == Append(results, DriveFile(file))

(* try { results.push(await uploadFileToDrive(file)) } catch { } *)
PushResult(results, file, outcome) ==
    IF outcome # "fail" THEN Append(results, DriveFile(file)) ELSE results

(* uploadImages: one turn of the loop *)
uploadFileToDrive(r, outcome) ==
    /\ r \in reqs /\ r.kind = "upload" /\ r.stage = "uploading" /\ r.host # "unloaded"
    /\ Len(r.log) < Len(r.files)
    /\ reqs' = (reqs \ {r}) \cup
               {[r EXCEPT !.results = PushResult(@, r.files[Len(r.log) + 1], outcome),
                          !.log = Append(@, outcome)]}
    /\ UNCHANGED <<storeVars, made, ret, page, cards, toast, route, home, upload, granted, drive>>

(* uploadImages has returned: handleUpload up to its second await *)
UploadImagesDone(r) ==
    /\ r \in reqs /\ r.kind = "upload" /\ r.stage = "uploading" /\ r.host # "unloaded"
    /\ Len(r.log) = Len(r.files)
    /\ IF Len(r.results) > 0
       THEN /\ reqs' = (reqs \ {r}) \cup {[r EXCEPT !.stage = "inserting"]}
            /\ UNCHANGED <<upload, toast>>
       ELSE /\ reqs' = reqs \ {r}
            /\ upload' = UploadSettled(r)
            /\ toast' = Toast("error", "Failed to upload images. Please try again.")
    /\ UNCHANGED <<storeVars, made, ret, page, cards, route, home, granted, drive>>

(* addMultipleImages(boardId, uploadedFiles, selectedLabelId || null) reaches the store *)
ServeAddMultipleImages(r, net) ==
    /\ r \in reqs /\ r.kind = "upload" /\ r.stage = "inserting"
    /\ LET o == addMultipleImages(Store, r.board.id, r.results, r.label, net)
       IN  /\ o.S.nextId.image <= MaxImageIds + 1
           /\ SetStore(o.S)
           /\ reqs' = (reqs \ {r}) \cup
                      {[r EXCEPT !.stage = "inserted", !.out = Answer("addMultipleImages", o)]}
    /\ UNCHANGED <<made, ret, page, cards, toast, route, home, upload, granted, drive>>

(* handleUpload from its second await on: the success notification,         *)
(* onUploadComplete (Board's loadData) and handleClose                      *)
UploadDone(r) ==
    /\ r \in reqs /\ r.kind = "upload" /\ r.stage = "inserted" /\ r.host # "unloaded"
    /\ IF r.out.status = "return"
       THEN /\ toast' = Toast("success", "Successfully uploaded " \o ToString(Len(r.results))
                                         \o " images!")
            /\ IF r.host = "mounted"
               THEN /\ Rerender([page EXCEPT !.isLoading = TRUE], cards,
                                (reqs \ {r}) \cup
                                {[Req(r.n, "loadData", NullId, FALSE, FALSE, <<>>)
                                     EXCEPT !.board = r.board]})
                    /\ upload' = InitialUpload
               ELSE /\ reqs' = reqs \ {r}
                    /\ UNCHANGED <<page, cards, upload>>
       ELSE /\ toast' = Toast("error", "Failed to upload images. Please check your Google Drive setup.")
            /\ reqs' = reqs \ {r}
            /\ upload' = UploadSettled(r)
            /\ UNCHANGED <<page, cards>>
    /\ UNCHANGED <<storeVars, made, ret, route, home, granted, drive>>

(* Cancel, the close button or the backdrop: handleClose *)
handleClose ==
    /\ upload.isOpen
    /\ upload' = InitialUpload
    /\ UNCHANGED <<storeVars, made, ret, page, cards, reqs, toast, route, home, granted, drive>>

UploadEvents ==
    \/ \E r \in reqs, net \in Nets : ServeGetBoardImages(r, net)
    \/ \E r \in reqs, net \in Nets : ServeGetBoardLabels(r, net)
    \/ \E r \in reqs : LoadDataDone(r)
    \/ OpenUploadModal
    \/ \E selectedFiles \in FileChoices : handleFileSelect(selectedFiles)
    \/ \E labelId \in 0..MaxLabelIds : setSelectedLabelId(labelId)
    \/ Cardinality(UploadsInFlight) < MaxUploads /\ handleUpload
    \/ \E r \in reqs, outcome \in DriveOutcomes : loadGoogleDriveApi(r, outcome)
    \/ \E r \in reqs, outcome \in DriveOutcomes : uploadFileToDrive(r, outcome)
    \/ \E r \in reqs : UploadImagesDone(r)
    \/ \E r \in reqs, net \in Nets : ServeAddMultipleImages(r, net)
    \/ \E r \in reqs : UploadDone(r)
    \/ handleClose

NextUpload ==
    \/ ToastEffects
    \/ EffectsFlushed /\ UploadEvents

SpecUpload == InitUpload /\ [][NextUpload]_vars

(* the drive files of the uploads that succeeded, in selection order *)
RECURSIVE Succeeded(_, _)
Succeeded(files, log) ==
    IF files = <<>> \/ log = <<>> THEN <<>>
    ELSE (IF Head(log) = "ok" THEN <<DriveFile(Head(files))>> ELSE <<>>)
         \o Succeeded(Tail(files), Tail(log))

----------------------------------------------------------------------------
(* Getting into a board: Home (the board list, the password prompt, the     *)
(* create form) and Board (loadBoard, the password prompt, loadData), with  *)
(* the router between them.  The store starts with a board another client   *)
(* created through Home, so with an empty deletion password.                *)

AccessPw == <<112, 97, 115, 115>>       \* "pass"
OtherPw == <<119, 111, 114, 100>>       \* "word"
TypedPasswords == {AccessPw, OtherPw, <<32>>}
NewBoardPasswords == {OtherPw, <<233>>}
TypedNames == {"b", " b", " "}
UrlNames == {"a", "b"}                  \* no % escape: decodeURIComponent leaves them alone

(* String.prototype.trim on the names that can be typed *)
TrimName(name) == CASE name = " b" -> "b" [] name = " " -> "" [] OTHER -> name

AccessStore == createBoard(EmptyStore, "a", AccessPw, <<>>, "ok").S

(* what mounting Home leaves behind: its initial state and loadBoards under way *)
MountHome(rs) ==
    /\ home' = InitialHome
    /\ reqs' = Unhost(rs, "unmounted") \cup
               {Req(CHOOSE n \in 1..(Cardinality(rs) + 1) : \A r \in rs : r.n # n,
                    "loadBoards", NullId, FALSE, FALSE, <<>>)}

(* what mounting Board for /board/:boardName with navigation state st       *)
(* leaves behind: the loadBoard effect fetches the board when there is      *)
(* none and shows the prompt when there is one unauthenticated; the         *)
(* loadData effect runs when authenticated                                  *)
MountBoardOpen(boardName, st, rs) ==
    LET n == CHOOSE n \in 1..(Cardinality(rs) + 1) : \A r \in rs : r.n # n
    IN  /\ page' = [InitialPage(st) EXCEPT !.isAuthenticated = TRUE]
        /\ reqs' = Unhost(rs, "unmounted") \cup
                   {[Req(n, "loadData", NullId, FALSE, FALSE, <<>>) EXCEPT !.board = st.board]}

MountBoard(boardName, st, rs) ==
    LET pg == InitialPage(st)
        n == CHOOSE n \in 1..(Cardinality(rs) + 1) : \A r \in rs : r.n # n
    IN  /\ page' = IF pg.board # NoRow /\ ~pg.isAuthenticated
                   THEN [pg EXCEPT !.showPasswordModal = TRUE] ELSE pg
        /\ reqs' = Unhost(rs, "unmounted") \cup
                   (IF pg.board = NoRow
                    THEN {[Req(n, "loadBoard", NullId, FALSE, FALSE, <<>>)
                              EXCEPT !.name = boardName]}
                    ELSE IF pg.isAuthenticated
                    THEN {[Req(n, "loadData", NullId, FALSE, FALSE, <<>>)
                              EXCEPT !.board = pg.board]}
                    ELSE {})

(* navigate(`/board/${encodeURIComponent(name)}`, { state }) with rs the    *)
(* handlers left suspended: from Home the Board component is mounted; on    *)
(* the board route the mounted Board is kept, its loadBoard effect runs     *)
(* again for the new :boardName                                             *)
NavigateToBoard(boardName, st, rs, notified) ==
    /\ route' = Route(BoardPath, boardName, st)
    /\ IF route.path = HomePath
       THEN /\ MountBoard(boardName, st, rs)
            /\ home' = InitialHome
            /\ cards' = <<>>
       ELSE LET eff == BoardEffects(page, rs, boardName,
                                   notified \/ boardName # route.boardName, notified)
            IN  /\ Rerender(eff.page, cards, eff.reqs)
                /\ home' = home
    /\ upload' = IF route.path = HomePath THEN InitialUpload ELSE upload

(* navigate('/'): Board is unmounted and Home mounted, unless Home is shown *)
NavigateHome(rs) ==
    /\ route' = Route(HomePath, "", NoNav)
    /\ IF route.path = BoardPath
       THEN /\ MountHome(rs)
            /\ page' = InitialPage(NoNav)
            /\ cards' = <<>>
            /\ upload' = InitialUpload
       ELSE /\ reqs' = rs
            /\ UNCHANGED <<home, page, cards, upload>>

InitAccess ==
    /\ boards = AccessStore.boards
    /\ labels = AccessStore.labels
    /\ images = AccessStore.images
    /\ nextId = AccessStore.nextId
    /\ made = <<Made(AccessPw, <<>>)>>
    /\ ret = NoCall
    /\ page = InitialPage(NoNav)
    /\ cards = <<>>
    /\ reqs = {Req(1, "loadBoards", NullId, FALSE, FALSE, <<>>)}
    /\ toast = NoToast
    /\ route = Route(HomePath, "", NoNav)
    /\ home = InitialHome
    /\ upload = InitialUpload
    /\ granted = {}
    /\ drive = InitialDrive

(* ---- Home ---- *)

ServeGetAllBoards(r, net) ==
    /\ r \in reqs /\ r.kind = "loadBoards" /\ r.stage = "sent"
    /\ reqs' = (reqs \ {r}) \cup
               {[r EXCEPT !.stage = "served", !.out = Answer("getAllBoards", getAllBoards(Store, net))]}
    /\ UNCHANGED <<storeVars, made, ret, page, cards, toast, shellVars>>

(* loadBoards from its await on *)
LoadBoardsDone(r) ==
    /\ r \in reqs /\ r.kind = "loadBoards" /\ r.stage = "served" /\ r.host # "unloaded"
    /\ reqs' = reqs \ {r}
    /\ home' = IF r.host = "mounted" /\ route.path = HomePath
               THEN [home EXCEPT !.boards = IF r.out.status = "return" THEN r.out.rows ELSE @,
                                 !.isLoading = FALSE]
               ELSE home
    /\ toast' = IF r.out.status = "return" THEN toast
                ELSE Toast("error", "Failed to load boards. Check your Supabase configuration.")
    /\ UNCHANGED <<storeVars, made, ret, page, cards, route, upload, granted, drive>>

handleBoardClick(k) ==
    /\ route.path = HomePath
    /\ k \in 1..Len(home.boards)
    /\ home' = [home EXCEPT !.selectedBoard = home.boards[k], !.showPasswordModal = TRUE]
    /\ UNCHANGED <<storeVars, made, ret, page, cards, reqs, toast, route, upload, granted, drive>>

(* Home.handleVerifyPassword up to its await, with the typed password *)
HomeHandleVerifyPassword(password) ==
    /\ route.path = HomePath
    /\ home.showPasswordModal
    /\ Cardinality(reqs) < MaxInFlight
    /\ IF Trim(password) = <<>>
       THEN /\ toast' = Toast("error", "Please enter the password")
            /\ UNCHANGED <<home, reqs>>
       ELSE /\ home' = [home EXCEPT !.isVerifying = TRUE]
            /\ reqs' = reqs \cup {[Req(FreeReq, "homeVerify", NullId, FALSE, FALSE, password)
                                      EXCEPT !.name = home.selectedBoard.name]}
            /\ toast' = toast
    /\ UNCHANGED <<storeVars, made, ret, page, cards, route, upload, granted, drive>>

(* verifyBoardPassword(name, password) reaches the store *)
ServeVerifyBoardPassword(r, net) ==
    /\ r \in reqs /\ r.kind \in {"homeVerify", "boardVerify"} /\ r.stage = "sent"
    /\ reqs' = (reqs \ {r}) \cup
               {[r EXCEPT !.stage = "served",
                          !.out = Answer("verifyBoardPassword",
                                         verifyBoardPassword(Store, r.name, r.text, net))]}
    /\ UNCHANGED <<storeVars, made, ret, page, cards, toast, shellVars>>

(* what a handler tells the user about a verification that did not succeed *)
VerifyFailureToast(out) ==
    IF out.status = "throw" THEN Toast("error", "Failed to verify password")
    ELSE Toast("error", out.error)

(* Home.handleVerifyPassword from its await on *)
HomeVerifyDone(r) ==
    /\ r \in reqs /\ r.kind = "homeVerify" /\ r.stage = "served" /\ r.host # "unloaded"
    /\ IF r.out.status = "return" /\ r.out.success
       THEN /\ NavigateToBoard(r.name, [board |-> r.out.data, authenticated |-> TRUE],
                               reqs \ {r}, FALSE)
            /\ granted' = granted \cup {r.name}
            /\ toast' = toast
       ELSE /\ toast' = VerifyFailureToast(r.out)
            /\ reqs' = reqs \ {r}
            /\ home' = IF r.host = "mounted" /\ route.path = HomePath
                       THEN [home EXCEPT !.isVerifying = FALSE] ELSE home
            /\ UNCHANGED <<page, cards, route, upload, granted>>
    /\ UNCHANGED <<storeVars, made, ret, drive>>

(* handleCreateBoard up to its await, with the typed name and password *)
handleCreateBoard(name, password) ==
    /\ route.path = HomePath
    /\ Cardinality(reqs) < MaxInFlight
    /\ IF TrimName(name) = ""
       THEN /\ toast' = Toast("error", "Please enter a board name")
            /\ UNCHANGED <<home, reqs>>
       ELSE IF Trim(password) = <<>>
       THEN /\ toast' = Toast("error", "Please enter a password")
            /\ UNCHANGED <<home, reqs>>
       ELSE IF Len(password) < 4
       THEN /\ toast' = Toast("error", "Password must be at least 4 characters")
            /\ UNCHANGED <<home, reqs>>
       ELSE /\ home' = [home EXCEPT !.isCreating = TRUE]
            /\ reqs' = reqs \cup {[Req(FreeReq, "create", NullId, FALSE, FALSE, password)
                                      EXCEPT !.name = TrimName(name)]}
            /\ toast' = toast
    /\ UNCHANGED <<storeVars, made, ret, page, cards, route, upload, granted, drive>>

(* createBoard(name, password) reaches the store; the deletion password is  *)
(* left undefined, which TextEncoder encodes like the empty string          *)
ServeCreateBoard(r, net) ==
    /\ r \in reqs /\ r.kind = "create" /\ r.stage = "sent"
    /\ LET o == createBoard(Store, r.name, r.text, <<>>, net)
       IN  /\ o.S.nextId.board <= MaxBoardIds + 1
           /\ SetStore(o.S)
           /\ made' = IF o.status = "return"
                      THEN Append(made, Made(r.text, <<>>))
                      ELSE made
           /\ reqs' = (reqs \ {r}) \cup
                      {[r EXCEPT !.stage = "served", !.out = Answer("createBoard", o)]}
    /\ UNCHANGED <<ret, page, cards, toast, shellVars>>

(* handleCreateBoard from its await on; the loadBoards it starts belongs to *)
(* the Home that is unmounted by the navigation                             *)
CreateBoardDone(r) ==
    /\ r \in reqs /\ r.kind = "create" /\ r.stage = "served" /\ r.host # "unloaded"
    /\ IF r.out.status = "return"
       THEN /\ toast' = Shown(Toast("success", "Board \"" \o r.out.data.name \o "\" created!"))
            /\ NavigateToBoard(r.out.data.name, [board |-> r.out.data, authenticated |-> TRUE],
                               (reqs \ {r}) \cup
                               {[Req(r.n, "loadBoards", NullId, FALSE, FALSE, <<>>)
                                    EXCEPT !.host = r.host]}, TRUE)
            /\ granted' = granted \cup {r.out.data.name}
       ELSE /\ toast' = Toast("error", r.out.error)
            /\ reqs' = reqs \ {r}
            /\ home' = IF r.host = "mounted" /\ route.path = HomePath
                       THEN [home EXCEPT !.isCreating = FALSE] ELSE home
            /\ UNCHANGED <<page, cards, route, upload, granted>>
    /\ UNCHANGED <<storeVars, made, ret, drive>>

(* the prompt's close button or backdrop: setShowPasswordModal(false) *)
CloseHomePasswordModal ==
    /\ route.path = HomePath
    /\ home.showPasswordModal
    /\ home' = [home EXCEPT !.showPasswordModal = FALSE]
    /\ UNCHANGED <<storeVars, made, ret, page, cards, reqs, toast, route, upload, granted, drive>>

(* ---- Board ---- *)

(* getBoardByName(decodeURIComponent(boardName)) reaches the store *)
ServeGetBoardByName(r, net) ==
    /\ r \in reqs /\ r.kind = "loadBoard" /\ r.stage = "sent"
    /\ reqs' = (reqs \ {r}) \cup
               {[r EXCEPT !.stage = "served",
                          !.out = Answer("getBoardByName", getBoardByName(Store, r.name, net))]}
    /\ UNCHANGED <<storeVars, made, ret, page, cards, toast, shellVars>>

(* loadBoard from its await on: the board is kept and the prompt shown, or  *)
(* the user is sent home                                                    *)
LoadBoardDone(r) ==
    /\ r \in reqs /\ r.kind = "loadBoard" /\ r.stage = "served" /\ r.host # "unloaded"
    /\ IF r.out.status = "return" /\ r.out.data # NoRow
       THEN /\ page' = IF r.host = "mounted"
                       THEN [page EXCEPT !.board = r.out.data, !.showPasswordModal = TRUE]
                       ELSE page
            /\ reqs' = reqs \ {r}
            /\ UNCHANGED <<cards, toast, route, home, upload>>
       ELSE /\ toast' = LET t == IF r.out.status = "return"
                                  THEN Toast("error", "Board not found")
                                  ELSE Toast("error", "Failed to load board")
                        IN  IF route.path = BoardPath THEN Shown(t) ELSE t
            /\ NavigateHome(reqs \ {r})
    /\ UNCHANGED <<storeVars, made, ret, granted, drive>>

(* Board.handleVerifyPassword up to its await, with the typed password; the *)
(* prompt is rendered while showPasswordModal && board                      *)
BoardHandleVerifyPassword(password) ==
    /\ route.path = BoardPath
    /\ ~page.isAuthenticated /\ page.showPasswordModal /\ page.board # NoRow
    /\ Cardinality(reqs) < MaxInFlight
    /\ IF Trim(password) = <<>>
       THEN /\ toast' = Toast("error", "Please enter the password")
            /\ UNCHANGED <<page, reqs>>
       ELSE /\ page' = [page EXCEPT !.isVerifying = TRUE]
            /\ reqs' = reqs \cup {[Req(FreeReq, "boardVerify", NullId, FALSE, FALSE, password)
                                      EXCEPT !.name = page.board.name, !.board = page.board]}
            /\ toast' = toast
    /\ UNCHANGED <<storeVars, made, ret, cards, shellVars>>

(* Board.handleVerifyPassword from its await on; setIsAuthenticated(true)   *)
(* makes the loadData effect run                                            *)
BoardVerifyDone(r) ==
    /\ r \in reqs /\ r.kind = "boardVerify" /\ r.stage = "served" /\ r.host # "unloaded"
    /\ IF r.out.status = "return" /\ r.out.success
       THEN /\ granted' = granted \cup {r.name}
            /\ IF r.host = "mounted"
               THEN /\ toast' = Shown(Toast("success", "Access granted!"))
                    /\ page' = [page EXCEPT !.isAuthenticated = TRUE, !.showPasswordModal = FALSE,
                                            !.isVerifying = FALSE, !.isLoading = TRUE]
                    /\ reqs' = (reqs \ {r}) \cup
                               {[Req(r.n, "loadData", NullId, FALSE, FALSE, <<>>)
                                    EXCEPT !.board = page.board]}
               ELSE /\ toast' = Toast("success", "Access granted!")
                    /\ reqs' = reqs \ {r}
                    /\ page' = page
       ELSE /\ toast' = VerifyFailureToast(r.out)
            /\ granted' = granted
            /\ reqs' = reqs \ {r}
            /\ page' = IF r.host = "mounted" THEN [page EXCEPT !.isVerifying = FALSE] ELSE page
    /\ UNCHANGED <<storeVars, made, ret, cards, route, home, upload, drive>>

(* navigate('/') from the Board: Go Back, the prompt's close button, the header *)
GoHome ==
    /\ route.path = BoardPath
    /\ Cardinality(reqs) < MaxInFlight
    /\ NavigateHome(reqs)
    /\ UNCHANGED <<storeVars, made, ret, toast, granted, drive>>

(* the browser loads the document anew: every handler of the old document   *)
(* is gone; history.state, and with it location.state, is kept              *)
Reload ==
    /\ route' = route
    /\ IF route.path = HomePath
       THEN /\ MountHome({})
            /\ UNCHANGED page
       ELSE /\ MountBoard(route.boardName, route.state, {})
            /\ UNCHANGED home
    /\ cards' = <<>>
    /\ upload' = InitialUpload
    /\ toast' = NoToast
    /\ UNCHANGED <<storeVars, made, ret, granted, drive>>

(* the user opens /board/:boardName by its address: a new document, no      *)
(* navigation state                                                         *)
OpenUrl(boardName) ==
    /\ route' = Route(BoardPath, boardName, NoNav)
    /\ MountBoard(boardName, NoNav, {})
    /\ home' = InitialHome
    /\ cards' = <<>>
    /\ upload' = InitialUpload
    /\ toast' = NoToast
    /\ UNCHANGED <<storeVars, made, ret, granted, drive>>

AccessEvents ==
    \/ \E r \in reqs, net \in Nets : ServeGetAllBoards(r, net)
    \/ \E r \in reqs : LoadBoardsDone(r)
    \/ \E k \in 1..MaxBoardIds : handleBoardClick(k)
    \/ CloseHomePasswordModal
    \/ \E password \in TypedPasswords : HomeHandleVerifyPassword(password)
    \/ \E r \in reqs, net \in Nets : ServeVerifyBoardPassword(r, net)
    \/ \E r \in reqs : HomeVerifyDone(r)
    \/ \E name \in TypedNames, password \in NewBoardPasswords : handleCreateBoard(name, password)
    \/ \E r \in reqs, net \in Nets : ServeCreateBoard(r, net)
    \/ \E r \in reqs : CreateBoardDone(r)
    \/ \E r \in reqs, net \in Nets : ServeGetBoardByName(r, net)
    \/ \E r \in reqs : LoadBoardDone(r)
    \/ \E password \in TypedPasswords : BoardHandleVerifyPassword(password)
    \/ \E r \in reqs : BoardVerifyDone(r)
    \/ \E r \in reqs, net \in Nets : ServeGetBoardImages(r, net)
    \/ \E r \in reqs, net \in Nets : ServeGetBoardLabels(r, net)
    \/ \E r \in reqs : LoadDataDone(r)
    \/ GoHome
    \/ Reload
    \/ \E boardName \in UrlNames : OpenUrl(boardName)

NextAccess ==
    \/ ToastEffects
    \/ EffectsFlushed /\ ToastExpired
    \/ EffectsFlushed /\ AccessEvents

SpecAccess == InitAccess /\ [][NextAccess]_vars

CreatorSupplied(id) == {made[id].password}

C11_AsStated ==
    \A b \in boards :
        b.id >= AccessStore.nextId.board =>
            \E d \in CreatorSupplied(b.id) :
                /\ b.deletion_password_hash = hashPassword(d)
                /\ verifyDeletionPassword(Store, b.id, d, "ok").success

(***************************************************************************)
(* C12, as stated: a board leaves the store only after                     *)
(* verifyDeletionPassword returned success for that board.                 *)
(***************************************************************************)
C12_AsStated ==
    [][\A b \in boards :
          (\A c \in boards' : c.id # b.id) => made[b.id].deletionVerified]_vars

C12_DeleteAfterVerificationReachable ==
    /\ ret.op = "deleteBoard" /\ ret.status = "return"
    /\ \E id \in DOMAIN made : made[id].deletionVerified /\ \A b \in boards : b.id # id

(* position of image id in a list, counted from 0 as Array.prototype.map does *)
IndexOf(seq, id) == (CHOOSE k \in 1..Len(seq) : seq[k].id = id) - 1

imageNumber(totalImages, index) == totalImages - index

(* the number the card of image id shows, from the props Board passes it *)
ShownNumber(pg, id) ==
    LET shown == filteredImages(pg.images, pg.activeFilter, pg.selectedLabelFilter)
    IN  imageNumber(Len(shown), IndexOf(shown, id))

(***************************************************************************)
(* C13, as stated: under every setting of the two filters every displayed  *)
(* card shows (number of images loaded for the board) minus (the image's   *)
(* index in the loaded list, which is in descending creation order), so    *)
(* the newest image shows #N with N the board's total.                     *)
(***************************************************************************)
C13_AsStated ==
    \A id \in DOMAIN cards :
        ShownNumber(page, id) = Len(page.images) - IndexOf(page.images, id)

C13_FilteredCardShown ==
    /\ page.activeFilter # FILTER_ALL
    /\ Len(Displayed(page)) < Len(page.images)
    /\ DOMAIN cards # {}

(***************************************************************************)
(* C14, as stated: once getBoardImages/getBoardLabels of Board.loadData or *)
(* getAllBoards of Home.loadBoards has failed and the error notification   *)
(* is shown, the client sends no further request of that kind until the    *)
(* user triggers one: the effects run after that notification, which no    *)
(* user action starts, send no load request.                               *)
(***************************************************************************)
LoadFailureToasts ==
    {Toast("error", "Failed to load board data"),
     Toast("error", "Failed to load boards. Check your Supabase configuration.")}

C14_AsStated ==
    [][(ToastEffects /\ toast \in LoadFailureToasts) =>
           \A q \in reqs' : q.kind \in {"loadData", "loadBoards"} => \E r \in reqs : r.n = q.n]_vars
----------------------------------------------------------------------------
(* The upload modal with more than one handleUpload in progress: the modal  *)
(* can be closed by its backdrop or close button while an upload runs, and  *)
(* handleClose resets isUploading.                                          *)

MaxDriveUploads == 2        \* handleUpload invocations in progress at once

(* the files whose uploadFileToDrive call is awaited *)
DriveUploadsInFlight ==
    {r \in reqs : /\ r.kind = "upload" /\ r.stage = "uploading" /\ r.host # "unloaded"
                  /\ Len(r.log) < Len(r.files)}

DriveEvents ==
    \/ \E r \in reqs, net \in Nets : ServeGetBoardImages(r, net)
    \/ \E r \in reqs, net \in Nets : ServeGetBoardLabels(r, net)
    \/ \E r \in reqs : LoadDataDone(r)
    \/ OpenUploadModal
    \/ \E selectedFiles \in {fs \in FileChoices : Len(fs) = 1} : handleFileSelect(selectedFiles)
    \/ Cardinality(UploadsInFlight) < MaxDriveUploads /\ handleUpload
    \/ \E r \in reqs, outcome \in DriveOutcomes : loadGoogleDriveApi(r, outcome)
    \/ \E r \in reqs, outcome \in DriveOutcomes : uploadFileToDrive(r, outcome)
    \/ \E r \in reqs : UploadImagesDone(r)
    \/ \E r \in reqs, net \in Nets : ServeAddMultipleImages(r, net)
    \/ \E r \in reqs : UploadDone(r)
    \/ handleClose

NextDrive ==
    \/ ToastEffects
    \/ EffectsFlushed /\ DriveEvents

SpecDrive == InitUpload /\ [][NextDrive]_vars

(***************************************************************************)
(* C15, as stated: in one client at most one file upload to the drive is   *)
(* in flight at any moment, whatever the user does with the upload modal,  *)
(* closing and reopening it while an upload runs included.                 *)
(***************************************************************************)
C15_AsStated == Cardinality(DriveUploadsInFlight) <= 1

(* within one handleUpload the files are sent one after the other *)
C15_SecondFileAfterFirst ==
    \E r \in reqs : /\ r.kind = "upload" /\ r.stage = "uploading"
                    /\ Len(r.files) = 2 /\ Len(r.log) = 1
----------------------------------------------------------------------------
(* The details modal of an image card: the comment box with its Save        *)
(* button and the label select, beside the selection toggle.                *)

TypedComments == {"hi "}
TrimComment(text) == CASE text = "hi " -> "hi" [] text = " " -> "" [] OTHER -> text

(* onClick of the card: setShowDetails(true); the modal's backdrop covers   *)
(* the grid                                                                 *)
OpenDetails(id) ==
    /\ id \in DOMAIN cards
    /\ \A other \in DOMAIN cards : ~cards[other].showDetails
    /\ cards' = [cards EXCEPT ![id].showDetails = TRUE]
    /\ UNCHANGED <<shellVars, storeVars, made, ret, page, reqs, toast>>

(* the backdrop or the close button: setShowDetails(false) *)
CloseDetails(id) ==
    /\ id \in DOMAIN cards
    /\ cards[id].showDetails
    /\ cards' = [cards EXCEPT ![id].showDetails = FALSE]
    /\ UNCHANGED <<shellVars, storeVars, made, ret, page, reqs, toast>>

(* onChange of the textarea *)
setComment(id, text) ==
    /\ id \in DOMAIN cards
    /\ cards[id].showDetails
    /\ cards' = [cards EXCEPT ![id].comment = text]
    /\ UNCHANGED <<shellVars, storeVars, made, ret, page, reqs, toast>>

(* handleSaveComment up to its await; the button is disabled while saving   *)
(* and while the text is the image's comment                                *)
handleSaveComment(id) ==
    /\ id \in DOMAIN cards
    /\ cards[id].showDetails
    /\ ~(cards[id].isSavingComment \/ cards[id].comment = CommentText(ImageIn(page.images, id)))
    /\ Cardinality(reqs) < MaxInFlight
    /\ cards' = [cards EXCEPT ![id].isSavingComment = TRUE]
    /\ reqs' = reqs \cup {[Req(FreeReq, "comment", id, FALSE, FALSE, <<>>)
                              EXCEPT !.name = TrimComment(cards[id].comment)]}
    /\ UNCHANGED <<shellVars, storeVars, made, ret, page, toast>>

(* updateImageComment(image.id, comment.trim()) reaches the store *)
ServeUpdateImageComment(r, net) ==
    /\ r \in reqs /\ r.kind = "comment" /\ r.stage = "sent"
    /\ LET o == updateImageComment(Store, r.image, r.name, net)
       IN  /\ SetStore(o.S)
           /\ reqs' = (reqs \ {r}) \cup
                      {[r EXCEPT !.stage = "served", !.out = Answer("updateImageComment", o)]}
    /\ UNCHANGED <<shellVars, made, ret, page, cards, toast>>

(* handleSaveComment from its await on *)
SaveCommentDone(r) ==
    /\ r \in reqs /\ r.kind = "comment" /\ r.stage = "served" /\ r.host # "unloaded"
    /\ LET ok == r.out.status = "return"
           cs == IF r.card THEN [cards EXCEPT ![r.image].isSavingComment = FALSE] ELSE cards
           pg == IF ok /\ r.host = "mounted"
                 THEN [page EXCEPT !.images = handleImageUpdate(@, r.out.data)]
                 ELSE page
       IN  /\ Rerender(pg, cs, reqs \ {r})
           /\ toast' = IF ok THEN Toast("success", "Comment saved")
                       ELSE Toast("error", "Failed to save comment")
    /\ UNCHANGED <<shellVars, storeVars, made, ret>>

(* the value the label select shows: currentLabel?.id || '' *)
CurrentLabelId(img) == img.label.id

(* handleLabelChange up to its await: onChange of the label select with    *)
(* one of its options                                                       *)
handleLabelChange(id, labelId) ==
    /\ id \in DOMAIN cards
    /\ cards[id].showDetails
    /\ labelId \in {NullId} \cup Ids(page.labels)
    /\ labelId # CurrentLabelId(ImageIn(page.images, id))
    /\ Cardinality(reqs) < MaxInFlight
    /\ reqs' = reqs \cup {[Req(FreeReq, "label", id, FALSE, FALSE, <<>>) EXCEPT !.label = labelId]}
    /\ UNCHANGED <<shellVars, storeVars, made, ret, page, cards, toast>>

(* updateImageLabel(image.id, labelId || null) reaches the store *)
ServeUpdateImageLabel(r, net) ==
    /\ r \in reqs /\ r.kind = "label" /\ r.stage = "sent"
    /\ LET o == updateImageLabel(Store, r.image, r.label, net)
       IN  /\ SetStore(o.S)
           /\ reqs' = (reqs \ {r}) \cup
                      {[r EXCEPT !.stage = "served", !.out = Answer("updateImageLabel", o)]}
    /\ UNCHANGED <<shellVars, made, ret, page, cards, toast>>

(* handleLabelChange from its await on *)
LabelChangeDone(r) ==
    /\ r \in reqs /\ r.kind = "label" /\ r.stage = "served" /\ r.host # "unloaded"
    /\ LET ok == r.out.status = "return"
           pg == IF ok /\ r.host = "mounted"
                 THEN [page EXCEPT !.images = handleImageUpdate(@, r.out.data)]
                 ELSE page
       IN  /\ Rerender(pg, cards, reqs \ {r})
           /\ toast' = IF ~ok THEN Toast("error", "Failed to update label")
                       ELSE IF r.label # NullId THEN Toast("success", "Label applied")
                       ELSE Toast("success", "Label removed")
    /\ UNCHANGED <<shellVars, storeVars, made, ret>>

(* the cards the user works on; the page's own reloads are answered by the *)
(* store in these scenarios, the mutations may fail                        *)
EditIds == {1}

EditEvents ==
    \/ \E r \in reqs : ServeGetBoardImages(r, "ok")
    \/ \E r \in reqs : ServeGetBoardLabels(r, "ok")
    \/ \E r \in reqs : LoadDataDone(r)
    \/ \E id \in EditIds : handleToggle(id)
    \/ \E r \in reqs, net \in Nets : ServeToggleImageSelection(r, net)
    \/ \E r \in reqs : ToggleDone(r)
    \/ \E id \in EditIds : OpenDetails(id)
    \/ \E id \in EditIds : CloseDetails(id)
    \/ \E id \in EditIds, text \in TypedComments : setComment(id, text)
    \/ \E id \in EditIds : handleSaveComment(id)
    \/ \E r \in reqs, net \in Nets : ServeUpdateImageComment(r, net)
    \/ \E r \in reqs : SaveCommentDone(r)
    \/ \E id \in EditIds, labelId \in 0..MaxLabelIds : handleLabelChange(id, labelId)
    \/ \E r \in reqs, net \in Nets : ServeUpdateImageLabel(r, net)
    \/ \E r \in reqs : LabelChangeDone(r)

NextEdit ==
    \/ ToastEffects
    \/ EffectsFlushed /\ EditEvents

SpecEdit == InitCard /\ [][NextEdit]_vars

(* comment || null, as the store records it *)
CommentValue(text) == IF text = "" THEN NullText ELSE text

(***************************************************************************)
(* C16, as stated: while an edit-comment, change-label or delete-image     *)
(* request has been sent and not yet answered, the image's entry in the    *)
(* local list already carries the new comment or the new label, or is      *)
(* already gone from the list.                                             *)
(***************************************************************************)
C16_AsStated ==
    \A r \in reqs :
        (r.host = "mounted" /\ r.image \in Ids(page.images)) =>
            /\ (r.kind = "comment" /\ r.stage = "sent") =>
                   ImageIn(page.images, r.image).comment = CommentValue(r.name)
            /\ (r.kind = "label" /\ r.stage = "sent") =>
                   ImageIn(page.images, r.image).label_id = r.label
            /\ ~(r.kind = "delete" /\ r.stage = "deleting")

(***************************************************************************)
(* C17: when a toggle, a comment update or a label update of image i has   *)
(* succeeded, the list entry with id i becomes the record the store        *)
(* returned for that request, and the list keeps its length, its order and *)
(* every other entry.                                                      *)
(***************************************************************************)
C17_SuccessReplacesEntry ==
    [][\A r \in reqs :
          ((ToggleDone(r) \/ SaveCommentDone(r) \/ LabelChangeDone(r))
             /\ r.out.status = "return" /\ r.host = "mounted") =>
              /\ r.out.data.id = r.image
              /\ Len(page'.images) = Len(page.images)
              /\ \A k \in 1..Len(page.images) :
                    page'.images[k] = IF page.images[k].id = r.image
                                      THEN r.out.data ELSE page.images[k]]_vars

(* the label of image 1 has been removed and its comment saved: the entry  *)
(* is the store's record, the other image is where it was                  *)
C17_Witness ==
    /\ toast \in {Toast("success", "Label removed"), Toast("success", "Comment saved")}
    /\ Len(page.images) = MaxImageIds
    /\ page.images[Len(page.images)] \in {WithLabel(i, labels) : i \in images}
    /\ page.images[Len(page.images)].id = 1
    /\ page.images[Len(page.images)].label_id = NullId
    /\ page.images[Len(page.images)].comment = "hi"
----------------------------------------------------------------------------
(* The mutations that are sent without touching the local copy first: the  *)
(* comment, the label and the delete of one card.                          *)

MutateEvents ==
    \/ \E r \in reqs : ServeGetBoardImages(r, "ok")
    \/ \E r \in reqs : ServeGetBoardLabels(r, "ok")
    \/ \E r \in reqs : LoadDataDone(r)
    \/ \E id \in EditIds : OpenDetails(id)
    \/ \E id \in EditIds : CloseDetails(id)
    \/ \E id \in EditIds, text \in TypedComments : setComment(id, text)
    \/ \E id \in EditIds : handleSaveComment(id)
    \/ \E r \in reqs, net \in Nets : ServeUpdateImageComment(r, net)
    \/ \E r \in reqs : SaveCommentDone(r)
    \/ \E id \in EditIds, labelId \in 0..MaxLabelIds : handleLabelChange(id, labelId)
    \/ \E r \in reqs, net \in Nets : ServeUpdateImageLabel(r, net)
    \/ \E r \in reqs : LabelChangeDone(r)
    \/ \E id \in EditIds : handleDeleteClick(id)
    \/ \E id \in EditIds : setDeletionPassword(id, CardDelPw)
    \/ \E id \in EditIds : CloseDeleteModal(id)
    \/ \E id \in EditIds : handleConfirmDelete(id)
    \/ \E r \in reqs, net \in Nets : ServeVerifyDeletionPassword(r, net)
    \/ \E r \in reqs : VerifyDeletionDone(r)
    \/ \E r \in reqs, net \in Nets : ServeDeleteImage(r, net)
    \/ \E r \in reqs : DeleteDone(r)

NextMutate ==
    \/ ToastEffects
    \/ EffectsFlushed /\ MutateEvents

SpecMutate == InitCard /\ [][NextMutate]_vars

(***************************************************************************)
(* C18: when updateImageComment, updateImageLabel or deleteImage has       *)
(* failed, the handler leaves the image list as it was before the action   *)
(* (same entries, so the same comment and label on the card and the same   *)
(* members), leaves the text in the card's comment box, changes nothing in *)
(* the store and raises the error notification of the action.              *)
(***************************************************************************)
C18_FailureLeavesLocalCopy ==
    [][\A r \in reqs :
          /\ (SaveCommentDone(r) /\ r.out.status = "throw") =>
                /\ page'.images = page.images /\ images' = images
                /\ r.card => cards'[r.image].comment = cards[r.image].comment
                /\ toast' = Toast("error", "Failed to save comment")
          /\ (LabelChangeDone(r) /\ r.out.status = "throw") =>
                /\ page'.images = page.images /\ images' = images
                /\ r.card => cards'[r.image].comment = cards[r.image].comment
                /\ toast' = Toast("error", "Failed to update label")
          /\ (DeleteDone(r) /\ r.out2.status = "throw") =>
                /\ page'.images = page.images /\ images' = images
                /\ r.card => cards'[r.image].comment = cards[r.image].comment
                /\ toast' = Toast("error", "Failed to delete image")]_vars

(* deleteImage has failed after a verified password: the image is still in *)
(* the list and in the store, its card still shows the delete modal        *)
C18_Witness ==
    /\ toast = Toast("error", "Failed to delete image")
    /\ \E id \in DOMAIN cards :
          /\ id \in Ids(page.images) /\ id \in {i.id : i \in images}
          /\ cards[id].showDeleteModal /\ ~cards[id].isDeleting
----------------------------------------------------------------------------
(* The label manager of a board: deleting a label.                          *)

(* setShowLabelManager(true), from the header of an authenticated board *)
OpenLabelManager ==
    /\ page.isAuthenticated /\ ~page.showLabelManager
    /\ Rerender([page EXCEPT !.showLabelManager = TRUE], cards, reqs)
    /\ UNCHANGED <<shellVars, storeVars, made, ret, toast>>

(* Done, the close button or the backdrop *)
CloseLabelManager ==
    /\ page.showLabelManager
    /\ Rerender([page EXCEPT !.showLabelManager = FALSE], cards, reqs)
    /\ UNCHANGED <<shellVars, storeVars, made, ret, toast>>

(* handleDeleteLabel up to its await, the confirm() accepted; results holds *)
(* the labels prop the handler closes over                                  *)
handleDeleteLabel(labelId) ==
    /\ page.showLabelManager
    /\ labelId \in Ids(page.labels)
    /\ Cardinality(reqs) < MaxInFlight
    /\ reqs' = reqs \cup {[Req(FreeReq, "deleteLabel", NullId, FALSE, FALSE, <<>>)
                              EXCEPT !.label = labelId, !.results = page.labels]}
    /\ UNCHANGED <<shellVars, storeVars, made, ret, page, cards, toast>>

(* deleteLabel(labelId) reaches the store *)
ServeDeleteLabel(r, net) ==
    /\ r \in reqs /\ r.kind = "deleteLabel" /\ r.stage = "sent"
    /\ LET o == deleteLabel(Store, r.label, net)
       IN  /\ SetStore(o.S)
           /\ reqs' = (reqs \ {r}) \cup
                      {[r EXCEPT !.stage = "served", !.out = Answer("deleteLabel", o)]}
    /\ UNCHANGED <<shellVars, made, ret, page, cards, toast>>

(* Board.handleLabelsChange: setLabels(newLabels) *)
handleLabelsChange(pg, newLabels) == [pg EXCEPT !.labels = newLabels]

(* handleDeleteLabel from its await on:                                     *)
(* onLabelsChange(labels.filter(l => l.id !== labelId))                     *)
DeleteLabelDone(r) ==
    /\ r \in reqs /\ r.kind = "deleteLabel" /\ r.stage = "served" /\ r.host # "unloaded"
    /\ LET ok == r.out.status = "return"
           pg == IF ok /\ r.host = "mounted"
                 THEN handleLabelsChange(page, SelectSeq(r.results, LAMBDA l : l.id # r.label))
                 ELSE page
       IN  /\ Rerender(pg, cards, reqs \ {r})
           /\ toast' = IF ok THEN Toast("success", "Label deleted")
                       ELSE Toast("error", "Failed to delete label")
    /\ UNCHANGED <<shellVars, storeVars, made, ret>>

ManageEvents ==
    \/ \E r \in reqs, net \in Nets : ServeGetBoardImages(r, net)
    \/ \E r \in reqs, net \in Nets : ServeGetBoardLabels(r, net)
    \/ \E r \in reqs : LoadDataDone(r)
    \/ OpenLabelManager
    \/ CloseLabelManager
    \/ \E labelId \in 1..MaxLabelIds : handleDeleteLabel(labelId)
    \/ \E r \in reqs, net \in Nets : ServeDeleteLabel(r, net)
    \/ \E r \in reqs : DeleteLabelDone(r)
    \/ \E id \in 1..MaxImageIds : handleToggle(id)
    \/ \E r \in reqs, net \in Nets : ServeToggleImageSelection(r, net)
    \/ \E r \in reqs : ToggleDone(r)

NextManage ==
    \/ ToastEffects
    \/ EffectsFlushed /\ ToastExpired
    \/ EffectsFlushed /\ ManageEvents

SpecManage == InitCard /\ [][NextManage]_vars

(* the labels the store no longer has *)
DeletedLabels == {l.id : l \in CardStore.labels} \ {l.id : l \in labels}

(***************************************************************************)
(* C19, as stated: after a label delete has succeeded in the label         *)
(* manager, once no request is in flight (and no effect is waiting to      *)
(* run), no entry of the local image list still carries the deleted label. *)
(***************************************************************************)
C19_AsStated ==
    (reqs = {} /\ EffectsFlushed) =>
        \A k \in 1..Len(page.images) : page.images[k].label_id \notin DeletedLabels

(* a label delete has succeeded, the reload its toast set off has           *)
(* completed, and nothing is in flight                                      *)
C19_DeleteSucceededAndReloaded ==
    /\ DeletedLabels # {}
    /\ toast = Shown(Toast("success", "Label deleted"))
    /\ reqs = {} /\ ~page.isLoading
----------------------------------------------------------------------------
(* Two clients on one board: this client's page and cards, and another      *)
(* client whose toggles reach the store directly.                           *)

(* another client's handleToggle reaching the store; its answer goes to     *)
(* that client                                                              *)
OtherClientToggle(imageId, newValue) ==
    /\ LET o == toggleImageSelection(Store, imageId, newValue, "ok")
       IN  /\ o.status = "return"
           /\ o.S # Store
           /\ SetStore(o.S)
    /\ UNCHANGED <<made, ret, clientVars>>

ShareEvents ==
    \/ \E r \in reqs, net \in Nets : ServeGetBoardImages(r, net)
    \/ \E r \in reqs, net \in Nets : ServeGetBoardLabels(r, net)
    \/ \E r \in reqs : LoadDataDone(r)
    \/ \E id \in 1..MaxImageIds : handleToggle(id)
    \/ \E r \in reqs, net \in Nets : ServeToggleImageSelection(r, net)
    \/ \E r \in reqs : ToggleDone(r)
    \/ \E id \in 1..MaxImageIds, v \in BOOLEAN : OtherClientToggle(id, v)

NextShare ==
    \/ ToastEffects
    \/ EffectsFlushed /\ ToastExpired
    \/ EffectsFlushed /\ ShareEvents

SpecShare == InitCard /\ [][NextShare]_vars

(* the handlers of this client that change a row of the store *)
MutationKinds == {"toggle", "comment", "label", "delete"}
MutationInFlight == \E q \in reqs : q.kind \in MutationKinds

(* a reload of the mounted page that got both answers *)
Reloaded(r) ==
    /\ r.host = "mounted"
    /\ r.out.status = "return" /\ r.out2.status = "return"
    /\ LoadDataDone(r)

(***************************************************************************)
(* C20, as stated: when a reload (loadData) of the page completes with the *)
(* store's answers and the client has no mutation in flight, every image   *)
(* card then shows as selected exactly when the row the store returned for *)
(* its image in that reload has is_selected.                               *)
(***************************************************************************)
C20_AsStated ==
    [][\A r \in reqs :
          (Reloaded(r) /\ ~MutationInFlight) =>
              \A id \in DOMAIN cards' :
                  /\ id \in Ids(r.out.rows)
                  /\ cards'[id].isSelected = ImageIn(r.out.rows, id).is_selected]_vars
----------------------------------------------------------------------------
(* The outcomes of verifyBoardPassword. *)

Granted(o) == o.status = "return" /\ o.success /\ o.error = NoErr /\ o.data # NoRow
NotFound(o) == o.status = "return" /\ ~o.success /\ o.error = MsgBoardNotFound /\ o.data = NoRow
Incorrect(o) == o.status = "return" /\ ~o.success /\ o.error = MsgBadPassword /\ o.data = NoRow

(***************************************************************************)
(* C24: whenever the lookup does not error, verifyBoardPassword(name, c)   *)
(* answers "Board not found" without a board for every candidate c when no *)
(* board has exactly that name, "Incorrect password" when a board has the  *)
(* name and c is not its view password, and grants otherwise; exactly one  *)
(* of the three outcomes holds.  The last call that reached the store      *)
(* answered so.                                                            *)
(***************************************************************************)
C24_ThreeOutcomes ==
    /\ \A name \in BoardNames, c \in Passwords :
          LET o == verifyBoardPassword(Store, name, c, "ok")
              bs == {b \in boards : b.name = name}
          IN  /\ bs = {} => NotFound(o)
              /\ \A b \in bs : IF c = made[b.id].password
                               THEN Granted(o) /\ o.data = b
                               ELSE Incorrect(o)
              /\ Cardinality({k \in 1..3 : <<Granted(o), NotFound(o), Incorrect(o)>>[k]}) = 1
    /\ (ret.op = "verifyBoardPassword" /\ ret.args[3] = "ok") =>
          /\ Cardinality({k \in 1..3 : <<Granted(ret), NotFound(ret), Incorrect(ret)>>[k]}) = 1
          /\ (\A b \in boards : b.name # ret.args[1]) => NotFound(ret)

(* a lookup for a name that differs only in case from the one board there   *)
(* is has answered "Board not found"                                        *)
C24_Witness ==
    /\ ret.op = "verifyBoardPassword" /\ ret.args[3] = "ok"
    /\ NotFound(ret)
    /\ \E b \in boards : b.name # ret.args[1] /\ made[b.id].password = ret.args[2]
----------------------------------------------------------------------------
(***************************************************************************)
(* C23, as stated, for the image delete dialog: a failure of the request   *)
(* verifyDeletionPassword makes is never reported to the user as "Board    *)
(* not found" or as an incorrect password.  Where the board of the page    *)
(* stays in the store and the deletion password typed is always the right  *)
(* one, these messages could only stand for a failed request, so they are  *)
(* never shown.                                                            *)
(***************************************************************************)
C23_AsStated ==
    (\E b \in boards : b.id = page.board.id /\ b.deletion_password_hash = hashPassword(CardDelPw))
        => toast.message \notin {MsgBoardNotFound, MsgBadDeletionPassword, MsgBadPassword}
----------------------------------------------------------------------------
(* sub is seq with some entries left out, the others in their order *)
IsSubSequence(sub, seq) ==
    \E f \in [1..Len(sub) -> 1..Len(seq)] :
        /\ \A i \in 1..Len(sub), j \in 1..Len(sub) : i < j => f[i] < f[j]
        /\ \A i \in 1..Len(sub) : sub[i] = seq[f[i]]

(***************************************************************************)
(* C25: changing the selection filter or the label filter (or clearing     *)
(* both) leaves the loaded list images as it was - members, order and      *)
(* every field - and the displayed list is always a sub-sequence of it.    *)
(***************************************************************************)
C25_FiltersLeaveList ==
    /\ [][page'.images = page.images]_vars
    /\ [](IsSubSequence(Displayed(page), page.images))

(* both filters set, and some but not all of three images displayed *)
C25_Witness ==
    /\ page.activeFilter = FILTER_UNSELECTED
    /\ page.selectedLabelFilter # NullId
    /\ Len(page.images) = MaxListLen
    /\ Len(Displayed(page)) = 2
    /\ Displayed(page)[1] # page.images[1]
----------------------------------------------------------------------------
(* the toggleImageSelection requests in flight for an image, and those of   *)
(* them whose card is still mounted                                         *)
ToggleRequests(id) == {r \in reqs : r.kind = "toggle" /\ r.image = id}
OwnToggleRequests(id) == {r \in ToggleRequests(id) : r.card}

(***************************************************************************)
(* C27, as stated: for each image's card at most one toggleImageSelection  *)
(* request is in flight at a time.                                         *)
(***************************************************************************)
C27_AsStated == \A id \in 1..MaxImageIds : Cardinality(ToggleRequests(id)) <= 1

(***************************************************************************)
(* C27, amended: each mounted card has at most one toggleImageSelection    *)
(* request of its own in flight, and its isUpdating flag is set exactly    *)
(* while it has one; while the flag is set handleToggle does nothing; the  *)
(* flag is clear after the request completed, succeeded or failed.  A card *)
(* taken out of the grid and mounted again starts with the flag clear,     *)
(* whatever request its predecessor left in flight.                        *)
(***************************************************************************)
C27_OnePerMountedCard ==
    /\ [](\A id \in DOMAIN cards :
             /\ Cardinality(OwnToggleRequests(id)) <= 1
             /\ cards[id].isUpdating <=> OwnToggleRequests(id) # {})
    /\ [][\A id \in DOMAIN cards : cards[id].isUpdating => ~handleToggle(id)]_vars
    /\ [][\A r \in reqs :
             (ToggleDone(r) /\ r.card /\ r.image \in DOMAIN cards') =>
                 ~cards'[r.image].isUpdating]_vars

(* a card with its own request in flight next to the request left by the    *)
(* card that showed the same image before                                   *)
C27_Witness ==
    \E id \in DOMAIN cards :
        /\ cards[id].isUpdating
        /\ ToggleRequests(id) \ OwnToggleRequests(id) # {}
----------------------------------------------------------------------------
(* The label manager: creating and renaming labels, next to the label       *)
(* filter of the page.                                                      *)

(* handleCreateLabel up to its await, for the trimmed name typed; the       *)
(* submit button is disabled while isCreating                               *)
handleCreateLabel(name) ==
    /\ page.showLabelManager
    /\ \A r \in reqs : r.kind = "createLabel" => r.host # "mounted"
    /\ Cardinality(reqs) < MaxInFlight
    /\ reqs' = reqs \cup {[Req(FreeReq, "createLabel", NullId, FALSE, FALSE, <<>>)
                              EXCEPT !.board = page.board, !.name = name,
                                     !.results = page.labels]}
    /\ UNCHANGED <<shellVars, storeVars, made, ret, page, cards, toast>>

(* createLabel(boardId, name, color) reaches the store *)
ServeCreateLabel(r, net) ==
    /\ r \in reqs /\ r.kind = "createLabel" /\ r.stage = "sent"
    /\ LET o == createLabel(Store, r.board.id, r.name, DefaultColor, net)
       IN  /\ o.S.nextId.label <= MaxLabelIds + 1
           /\ SetStore(o.S)
           /\ reqs' = (reqs \ {r}) \cup
                      {[r EXCEPT !.stage = "served", !.out = Answer("createLabel", o)]}
    /\ UNCHANGED <<shellVars, made, ret, page, cards, toast>>

(* handleCreateLabel from its await on: onLabelsChange([...labels, newLabel]) *)
CreateLabelDone(r) ==
    /\ r \in reqs /\ r.kind = "createLabel" /\ r.stage = "served" /\ r.host # "unloaded"
    /\ LET ok == r.out.status = "return"
           pg == IF ok /\ r.host = "mounted"
                 THEN handleLabelsChange(page, Append(r.results, r.out.data))
                 ELSE page
       IN  /\ Rerender(pg, cards, reqs \ {r})
           /\ toast' = IF ok THEN Toast("success", "Label \"" \o r.out.data.name \o "\" created")
                       ELSE Toast("error", r.out.error)
    /\ UNCHANGED <<shellVars, storeVars, made, ret>>

(* handleUpdateLabel up to its await: the label being edited, with the      *)
(* trimmed name typed for it                                                *)
handleUpdateLabel(labelId, name) ==
    /\ page.showLabelManager
    /\ labelId \in Ids(page.labels)
    /\ Cardinality(reqs) < MaxInFlight
    /\ reqs' = reqs \cup {[Req(FreeReq, "updateLabel", NullId, FALSE, FALSE, <<>>)
                              EXCEPT !.label = labelId, !.name = name,
                                     !.results = page.labels]}
    /\ UNCHANGED <<shellVars, storeVars, made, ret, page, cards, toast>>

(* updateLabel(id, name, color) reaches the store *)
ServeUpdateLabel(r, net) ==
    /\ r \in reqs /\ r.kind = "updateLabel" /\ r.stage = "sent"
    /\ LET o == updateLabel(Store, r.label, r.name, DefaultColor, net)
       IN  /\ SetStore(o.S)
           /\ reqs' = (reqs \ {r}) \cup
                      {[r EXCEPT !.stage = "served", !.out = Answer("updateLabel", o)]}
    /\ UNCHANGED <<shellVars, made, ret, page, cards, toast>>

(* handleUpdateLabel from its await on:                                     *)
(* onLabelsChange(labels.map(l => l.id === updated.id ? updated : l))       *)
UpdateLabelDone(r) ==
    /\ r \in reqs /\ r.kind = "updateLabel" /\ r.stage = "served" /\ r.host # "unloaded"
    /\ LET ok == r.out.status = "return"
           pg == IF ok /\ r.host = "mounted"
                 THEN handleLabelsChange(page,
                          [k \in 1..Len(r.results) |->
                              IF r.results[k].id = r.out.data.id THEN r.out.data
                              ELSE r.results[k]])
                 ELSE page
       IN  /\ Rerender(pg, cards, reqs \ {r})
           /\ toast' = IF ok THEN Toast("success", "Label updated")
                       ELSE Toast("error", "Failed to update label")
    /\ UNCHANGED <<shellVars, storeVars, made, ret>>

(* the name typed when a label is renamed *)
RenamedTo == "y"

PanelEvents ==
    \/ \E r \in reqs : ServeGetBoardImages(r, "ok")
    \/ \E r \in reqs : ServeGetBoardLabels(r, "ok")
    \/ \E r \in reqs : LoadDataDone(r)
    \/ OpenLabelManager
    \/ CloseLabelManager
    \/ \E name \in LabelNames : handleCreateLabel(name)
    \/ \E r \in reqs, net \in Nets : ServeCreateLabel(r, net)
    \/ \E r \in reqs : CreateLabelDone(r)
    \/ \E labelId \in 1..MaxLabelIds : handleUpdateLabel(labelId, RenamedTo)
    \/ \E r \in reqs, net \in Nets : ServeUpdateLabel(r, net)
    \/ \E r \in reqs : UpdateLabelDone(r)
    \/ \E labelId \in 1..MaxLabelIds : handleDeleteLabel(labelId)
    \/ \E r \in reqs, net \in Nets : ServeDeleteLabel(r, net)
    \/ \E r \in reqs : DeleteLabelDone(r)

NextPanel ==
    \/ ToastEffects
    \/ EffectsFlushed /\ PanelEvents

SpecPanel == InitCard /\ [][NextPanel]_vars

----------------------------------------------------------------------------
(* The label filter of the page next to label deletes in the manager. *)

LabelFilterEvents ==
    \/ \E r \in reqs, net \in Nets : ServeGetBoardImages(r, net)
    \/ \E r \in reqs, net \in Nets : ServeGetBoardLabels(r, net)
    \/ \E r \in reqs : LoadDataDone(r)
    \/ OpenLabelManager
    \/ CloseLabelManager
    \/ \E g \in 0..MaxLabelIds : setSelectedLabelFilter(g)
    \/ ClearFilters
    \/ \E labelId \in 1..MaxLabelIds : handleDeleteLabel(labelId)
    \/ \E r \in reqs, net \in Nets : ServeDeleteLabel(r, net)
    \/ \E r \in reqs : DeleteLabelDone(r)

NextLabelFilter ==
    \/ ToastEffects
    \/ EffectsFlushed /\ ToastExpired
    \/ EffectsFlushed /\ LabelFilterEvents

SpecLabelFilter == InitCard /\ [][NextLabelFilter]_vars

(***************************************************************************)
(* C28, as stated: in every state of the board page the label filter is    *)
(* empty (all labels) or the id of a label in the local label list.        *)
(***************************************************************************)
C28_AsStated ==
    page.selectedLabelFilter = NullId \/ page.selectedLabelFilter \in Ids(page.labels)

(* the labels of the page's board in the store *)
StoreLabels == {l \in labels : l.board_id = page.board.id}
LocalLabels == {page.labels[k] : k \in 1..Len(page.labels)}

(* the completion of a label create or update puts no deleted label back *)
C29_NoDeletedLabelPutBack ==
    [][\A r \in reqs :
          (CreateLabelDone(r) \/ UpdateLabelDone(r)) =>
              \A gone \in DeletedLabels :
                  gone \notin Ids(page.labels) => gone \notin Ids(page'.labels)]_vars

(* with nothing in flight the local label list holds the store's labels *)
C29_ListsAgreeWhenIdle ==
    (reqs = {} /\ EffectsFlushed /\ ~page.isLoading) => LocalLabels = StoreLabels

(***************************************************************************)
(* C29, as stated: a label whose delete succeeded is never put back into   *)
(* the local label list by the completion of a label create or update      *)
(* started before the delete completed; and once every label manager       *)
(* action has completed, the local label list holds exactly the labels the *)
(* store holds for the board.                                              *)
(***************************************************************************)
C29_AsStated == C29_NoDeletedLabelPutBack /\ []C29_ListsAgreeWhenIdle
----------------------------------------------------------------------------
(* uploadFileToDrive in detail: the token, the multipart upload and the     *)
(* permission grant.  A fetch resolves with an ok response ("ok"), resolves *)
(* with an error status ("error") or rejects ("reject").                    *)

FetchOutcomes == {"ok", "error", "reject"}
TokenOutcomes == {"ok", "reject"}

(* makeFilePublic awaits its fetch and looks at nothing of the response *)
makeFilePublic(permission) == IF permission = "reject" THEN "throw" ELSE "return"

(* "ok": metadata returned for a file that is public; "unshared": metadata  *)
(* returned for a file the grant did not go through for; "fail": thrown     *)
uploadFileToDriveResult(token, response, permission) ==
    IF token = "reject" THEN "fail"                     \* await getAccessToken()
    ELSE IF response = "reject" THEN "fail"             \* await fetch(...)
    ELSE IF response = "error" THEN "fail"              \* if (!response.ok) throw
    ELSE IF makeFilePublic(permission) = "throw" THEN "fail"
    ELSE IF permission = "ok" THEN "ok"
    ELSE "unshared"

PublicEvents ==
    \/ \E r \in reqs, net \in Nets : ServeGetBoardImages(r, net)
    \/ \E r \in reqs, net \in Nets : ServeGetBoardLabels(r, net)
    \/ \E r \in reqs : LoadDataDone(r)
    \/ OpenUploadModal
    \/ \E selectedFiles \in FileChoices : handleFileSelect(selectedFiles)
    \/ Cardinality(UploadsInFlight) < MaxUploads /\ handleUpload
    \/ \E r \in reqs, outcome \in DriveOutcomes : loadGoogleDriveApi(r, outcome)
    \/ \E r \in reqs, token \in TokenOutcomes, response \in FetchOutcomes,
          permission \in FetchOutcomes :
          uploadFileToDrive(r, uploadFileToDriveResult(token, response, permission))
    \/ \E r \in reqs : UploadImagesDone(r)
    \/ \E r \in reqs, net \in Nets : ServeAddMultipleImages(r, net)
    \/ \E r \in reqs : UploadDone(r)
    \/ handleClose

NextPublic ==
    \/ ToastEffects
    \/ EffectsFlushed /\ PublicEvents

SpecPublic == InitUpload /\ [][NextPublic]_vars

(***************************************************************************)
(* C22, as stated: the files an upload action holds as uploaded, and       *)
(* hands to the store, are exactly the chosen files whose upload and       *)
(* permission grant both succeeded; a file whose permission grant failed   *)
(* is not among them.                                                      *)
(***************************************************************************)
C22_AsStated ==
    \A r \in reqs : r.kind = "upload" => r.results = Succeeded(r.files, r.log)

(* a file whose permission grant was refused is in the store *)
C22_UnsharedFileRecorded ==
    \E r \in reqs :
        /\ r.kind = "upload" /\ r.stage = "inserted" /\ r.out.status = "return"
        /\ r.log = <<"unshared">>
        /\ \E i \in images : i.drive_file_id = r.files[1].name
----------------------------------------------------------------------------
(* the rows of the page's board in the store *)
StoreImages == {i \in images : i.board_id = page.board.id}

(* a list entry shows the store's row: flag, comment and label *)
ShowsRow(img, row) ==
    /\ img.id = row.id
    /\ img.is_selected = row.is_selected
    /\ img.comment = row.comment
    /\ img.label_id = row.label_id

(***************************************************************************)
(* C21, as stated: in a single client with no other writer, once all of    *)
(* the client's requests have completed - reloads and mutations, in        *)
(* whatever order their answers arrived - the local image list has exactly *)
(* the images of the board in the store, each with the store's selected    *)
(* flag, comment and label.                                                *)
(***************************************************************************)
C21_AsStated ==
    (reqs = {} /\ EffectsFlushed) =>
        /\ Ids(page.images) = {i.id : i \in StoreImages}
        /\ \A k \in 1..Len(page.images) :
              \A row \in StoreImages : row.id = page.images[k].id => ShowsRow(page.images[k], row)
----------------------------------------------------------------------------
(* googleDrive.js in detail: loadGoogleDriveApi with its two script         *)
(* elements, getAccessToken with the token client's callback, and the two   *)
(* fetches of uploadFileToDrive.  An upload request goes through the stages *)
(* "sent" (uploadImages called), "loading" (awaiting loadGoogleDriveApi),   *)
(* "uploading" (in the loop, between files), "token" (awaiting              *)
(* getAccessToken), "posting" (awaiting the upload fetch) and "sharing"     *)
(* (awaiting makeFilePublic).                                               *)

(* checkAllLoaded(resolve) *)
checkAllLoaded(d) == d.pickerApiLoaded /\ d.gisLoaded

(* uploadImages stops at a rejected loadGoogleDriveApi: handleUpload's     *)
(* catch and finally                                                        *)
UploadThrew(r) ==
    /\ upload' = UploadSettled(r)
    /\ toast' = Toast("error", "Failed to upload images. Please check your Google Drive setup.")

(* one turn of the upload loop ends for the file in hand *)
FileDone(r, outcome) ==
    [r EXCEPT !.results = PushResult(@, r.files[Len(r.log) + 1], outcome),
              !.log = Append(@, outcome), !.stage = "uploading"]

(* the executor of loadGoogleDriveApi's promise, run by uploadImages: each  *)
(* script is created when no element has its id, and taken as loaded when   *)
(* one has                                                                  *)
CallLoadGoogleDriveApi(r) ==
    /\ r \in reqs /\ r.kind = "upload" /\ r.stage = "sent" /\ r.host # "unloaded"
    /\ LET d1 == IF drive.apiScript = "absent"
                 THEN [drive EXCEPT !.apiScript = "loading", !.loader = r.n]
                 ELSE [drive EXCEPT !.pickerApiLoaded = TRUE]
           resolved1 == drive.apiScript # "absent" /\ checkAllLoaded(d1)
           d2 == IF d1.gisScript = "absent"
                 THEN [d1 EXCEPT !.gisScript = "loading", !.loader = r.n]
                 ELSE [d1 EXCEPT !.gisLoaded = TRUE]
           resolved2 == d1.gisScript # "absent" /\ checkAllLoaded(d2)
       IN  /\ drive' = d2
           /\ reqs' = (reqs \ {r}) \cup
                      {[r EXCEPT !.stage = IF resolved1 \/ resolved2 THEN "uploading"
                                           ELSE "loading"]}
    /\ UNCHANGED <<storeVars, made, ret, page, cards, toast, route, home, upload, granted>>

(* the promise of the call that created the scripts is resolved, if it is   *)
(* still pending                                                            *)
ResolveLoader(d) ==
    IF checkAllLoaded(d) /\ d.loader # NullId
    THEN /\ drive' = [d EXCEPT !.loader = NullId]
         /\ reqs' = {IF r.kind = "upload" /\ r.n = d.loader /\ r.stage = "loading"
                     THEN [r EXCEPT !.stage = "uploading"] ELSE r : r \in reqs}
    ELSE /\ drive' = d
         /\ reqs' = reqs

(* script.onload of api.js: gapi.load('picker', ...) is asked for *)
ApiScriptOnload ==
    /\ drive.apiScript = "loading"
    /\ drive' = [drive EXCEPT !.apiScript = "loaded"]
    /\ UNCHANGED <<storeVars, made, ret, page, cards, reqs, toast, route, home, upload, granted>>

(* the callback of gapi.load('picker') *)
PickerLoaded ==
    /\ drive.apiScript = "loaded"
    /\ ResolveLoader([drive EXCEPT !.apiScript = "ready", !.pickerApiLoaded = TRUE])
    /\ UNCHANGED <<storeVars, made, ret, page, cards, toast, route, home, upload, granted>>

(* gisScript.onload: initializeTokenClient *)
GisScriptOnload ==
    /\ drive.gisScript = "loading"
    /\ ResolveLoader([drive EXCEPT !.gisScript = "loaded", !.gisLoaded = TRUE,
                                   !.tokenClient = TRUE])
    /\ UNCHANGED <<storeVars, made, ret, page, cards, toast, route, home, upload, granted>>

(* script.onerror = reject, of either script *)
ScriptOnerror(script) ==
    /\ drive[script] = "loading"
    /\ LET waiting == {r \in reqs : r.kind = "upload" /\ r.n = drive.loader
                                    /\ r.stage = "loading"}
       IN  /\ drive' = [drive EXCEPT ![script] = "failed", !.loader = NullId]
           /\ reqs' = reqs \ waiting
           /\ IF waiting # {}
              THEN UploadThrew(CHOOSE r \in waiting : TRUE)
              ELSE UNCHANGED <<upload, toast>>
    /\ UNCHANGED <<storeVars, made, ret, page, cards, route, home, granted>>

(* uploadFileToDrive: await getAccessToken(), up to a token request being   *)
(* sent.  Without a token client the executor throws at                     *)
(* tokenClient.callback = ..., which rejects the promise.                   *)
getAccessToken(r) ==
    /\ r \in reqs /\ r.kind = "upload" /\ r.stage = "uploading" /\ r.host # "unloaded"
    /\ Len(r.log) < Len(r.files)
    /\ IF drive.accessToken
       THEN /\ reqs' = (reqs \ {r}) \cup {[r EXCEPT !.stage = "posting"]}
            /\ drive' = drive
       ELSE IF ~drive.tokenClient
       THEN /\ reqs' = (reqs \ {r}) \cup {FileDone(r, "fail")}
            /\ drive' = drive
       ELSE /\ reqs' = (reqs \ {r}) \cup {[r EXCEPT !.stage = "token"]}
            /\ drive' = [drive EXCEPT !.callback = r.n, !.asked = @ + 1]
    /\ UNCHANGED <<storeVars, made, ret, page, cards, toast, route, home, upload, granted>>

(* the token service answers one requestAccessToken: the token client calls *)
(* the callback it holds now                                                *)
TokenResponse(outcome) ==
    /\ drive.asked > 0
    /\ drive' = [drive EXCEPT !.asked = @ - 1, !.callback = NullId,
                              !.accessToken = @ \/ outcome = "ok"]
    /\ reqs' = {IF r.kind = "upload" /\ r.n = drive.callback /\ r.stage = "token"
                THEN (IF outcome = "ok" THEN [r EXCEPT !.stage = "posting"]
                      ELSE FileDone(r, "fail"))
                ELSE r : r \in reqs}
    /\ UNCHANGED <<storeVars, made, ret, page, cards, toast, route, home, upload, granted>>

(* the multipart upload is answered: if (!response.ok) throw *)
UploadFetched(r, response) ==
    /\ r \in reqs /\ r.kind = "upload" /\ r.stage = "posting" /\ r.host # "unloaded"
    /\ reqs' = (reqs \ {r}) \cup
               {IF response = "ok" THEN [r EXCEPT !.stage = "sharing"] ELSE FileDone(r, "fail")}
    /\ UNCHANGED <<storeVars, made, ret, page, cards, toast, shellVars>>

(* makeFilePublic is answered, and uploadFileToDrive returns or throws *)
PermissionFetched(r, permission) ==
    /\ r \in reqs /\ r.kind = "upload" /\ r.stage = "sharing" /\ r.host # "unloaded"
    /\ reqs' = (reqs \ {r}) \cup {FileDone(r, uploadFileToDriveResult("ok", "ok", permission))}
    /\ UNCHANGED <<storeVars, made, ret, page, cards, toast, shellVars>>

OneFile == {fs \in FileChoices : Len(fs) = 1}

TokenEvents ==
    \/ \E r \in reqs : ServeGetBoardImages(r, "ok")
    \/ \E r \in reqs : ServeGetBoardLabels(r, "ok")
    \/ \E r \in reqs : LoadDataDone(r)
    \/ OpenUploadModal
    \/ \E selectedFiles \in OneFile : handleFileSelect(selectedFiles)
    \/ Cardinality(UploadsInFlight) < MaxDriveUploads /\ handleUpload
    \/ handleClose
    \/ \E r \in reqs : CallLoadGoogleDriveApi(r)
    \/ ApiScriptOnload
    \/ PickerLoaded
    \/ GisScriptOnload
    \/ \E script \in {"apiScript", "gisScript"} : ScriptOnerror(script)
    \/ \E r \in reqs : getAccessToken(r)
    \/ \E outcome \in {"ok", "error"} : TokenResponse(outcome)
    \/ \E r \in reqs, response \in FetchOutcomes : UploadFetched(r, response)
    \/ \E r \in reqs, permission \in FetchOutcomes : PermissionFetched(r, permission)
    \/ \E r \in reqs : UploadImagesDone(r)
    \/ \E r \in reqs, net \in Nets : ServeAddMultipleImages(r, net)
    \/ \E r \in reqs : UploadDone(r)

NextToken ==
    \/ ToastEffects
    \/ EffectsFlushed /\ TokenEvents

SpecToken == InitUpload /\ [][NextToken]_vars

(* every request the client has sent is answered in the end: the scripts,   *)
(* the token service, the drive store and the hosted store                  *)
TokenFairness ==
    /\ WF_vars(ToastEffects)
    /\ WF_vars(EffectsFlushed /\ \E r \in reqs : ServeGetBoardImages(r, "ok"))
    /\ WF_vars(EffectsFlushed /\ \E r \in reqs : ServeGetBoardLabels(r, "ok"))
    /\ WF_vars(EffectsFlushed /\ \E r \in reqs : LoadDataDone(r))
    /\ WF_vars(EffectsFlushed /\ \E r \in reqs : CallLoadGoogleDriveApi(r))
    /\ WF_vars(EffectsFlushed /\ (ApiScriptOnload \/ ScriptOnerror("apiScript")))
    /\ WF_vars(EffectsFlushed /\ PickerLoaded)
    /\ WF_vars(EffectsFlushed /\ (GisScriptOnload \/ ScriptOnerror("gisScript")))
    /\ WF_vars(EffectsFlushed /\ \E r \in reqs : getAccessToken(r))
    /\ WF_vars(EffectsFlushed /\ \E outcome \in {"ok", "error"} : TokenResponse(outcome))
    /\ WF_vars(EffectsFlushed /\ \E r \in reqs, response \in FetchOutcomes : UploadFetched(r, response))
    /\ WF_vars(EffectsFlushed /\ \E r \in reqs, permission \in FetchOutcomes : PermissionFetched(r, permission))
    /\ WF_vars(EffectsFlushed /\ \E r \in reqs : UploadImagesDone(r))
    /\ WF_vars(EffectsFlushed /\ \E r \in reqs, net \in Nets : ServeAddMultipleImages(r, net))
    /\ WF_vars(EffectsFlushed /\ \E r \in reqs : UploadDone(r))

FairToken == SpecToken /\ TokenFairness

MaxRequestNumber == 4    \* numbers FreeReq hands out in SpecToken

(* the handleUpload call numbered n has not finished *)
UploadRunning(n) == \E r \in reqs : r.kind = "upload" /\ r.n = n

RequestNumbersInRange == \A r \in reqs : r.n \in 1..MaxRequestNumber

(* C26: every started direct upload finishes in the end, given that every   *)
(* request to the scripts, the token service, the drive store and the       *)
(* hosted store is answered, also when a second upload is started while     *)
(* the first one is running.                                                *)
C26_AsStated == \A n \in 1..MaxRequestNumber : UploadRunning(n) ~> ~UploadRunning(n)

(* an upload waits for a token while no token request is outstanding and    *)
(* the token client's callback belongs to someone else                      *)
C26_UploadLeftWaiting ==
    \E r \in reqs : /\ r.kind = "upload" /\ r.stage = "token"
                    /\ drive.asked = 0 /\ drive.callback # r.n

(* C30: a call of loadGoogleDriveApi resolves only when the picker library  *)
(* and the identity-services library have loaded and the token client is    *)
(* initialised, for every call.                                             *)
C30_AsStated ==
    [][\A r \in reqs :
          (/\ r.kind = "upload" /\ r.stage \in {"sent", "loading"}
           /\ \E q \in reqs' : q.kind = "upload" /\ q.n = r.n /\ q.stage = "uploading")
          => (drive'.apiScript = "ready" /\ drive'.gisScript = "loaded" /\ drive'.tokenClient)]_vars

(* a call has resolved although a script failed to load or is still loading *)
C30_ResolvedUnloaded ==
    /\ \E r \in reqs : r.kind = "upload" /\ r.stage = "uploading"
    /\ ~(drive.apiScript = "ready" /\ drive.gisScript = "loaded")

====
